---- MODULE Spec2Model ----
(***************************************************************************)
(* The disassembly cache of src/dasm_cache/dasm_cache.c as a state         *)
(* machine: the striped node table, the user-to-parse request ring, the    *)
(* per-thread scope arena, the caller API (scope_open, scope_close,        *)
(* info_from_hash_params, info_from_key_params), the parse workers and     *)
(* the evictor/detector thread.                                            *)
(*                                                                         *)
(* Granularity.  Every stripe read- or write-locked section of the source  *)
(* is one step, except the evictor's write-locked walk, which is one step  *)
(* per node (it can block inside dasm_u2p_enqueue_req while holding the    *)
(* lock), and a parse thread's commit, which is two steps (the copy of the *)
(* Info into the node is not atomic).  Work local to a thread is folded    *)
(* into the neighbouring step.  The ring is its bytes: a request is        *)
(* written field by field at write_pos and read back from read_pos; one    *)
(* pass of the loop of dasm_u2p_enqueue_req under the ring's mutex is one  *)
(* step, and so is a dequeue.                                              *)
(***************************************************************************)
EXTENDS Integers, Sequences, FiniteSets, TLC

\* ------------------------------------------------------------------ bounds
\* Spec: one caller thread, one parse worker, the evictor, the clocks.
MaxLookups   == 2   \* lookup calls (by hash or by key) of the caller
MaxOpens     == 1   \* scope_open calls of the caller
MaxTicks     == 1   \* advances of the wall clock
MaxUserTicks == 1   \* bursts of dasm_user_clock_tick calls
MaxFsChanges == 1   \* increments of fs_change_gen
\* SpecRace: two caller threads, two parse workers.
RaceLookups  == 1   \* lookup calls of each caller
\* SpecNest: one caller thread with nested scopes.
NestLookups  == 4
NestOpens    == 3
NestDepth    == 2   \* scopes open at once
\* SpecSweep: one caller thread, lookups by hash, two advances of the clock.
SweepTicks     == 2
SweepUserTicks == 2
\* SpecClaim: SpecSweep with one lookup.
ClaimLookups == 1
\* SpecRing: two threads that enqueue, a small ring, one parse thread.
RingCalls == 2   \* enqueue calls of each thread
RingTicks == 1   \* advances of the clock
\* SpecJam: one caller thread, a small ring, one parse thread, the evictor.
JamLookups == 3
\* SpecDecode: one caller thread, one parse thread.
DecodeLookups == 2
\* How far below zero the model follows a reference count that underflows.
MaxUnderflow == 2

\* ------------------------------------------------------- program constants
slots_count                 == 1024       \* dasm_init
os_logical_core_count       == 8          \* the machine's core count
ring_size_init              == 65536      \* KB(64)
evict_threshold_us          == 10000000
retry_threshold_us          == 1000000
evict_threshold_user_clocks == 10
retry_threshold_user_clocks == 10
sleep_us                    == 100000     \* os_sleep_milliseconds(100)
ring_fixed_bytes            == 60         \* the sizeof sum of one request

Min(a, b) == IF a < b THEN a ELSE b

stripes_count == Min(slots_count, os_logical_core_count)

\* ------------------------------------------------------------------ values
\* A U128 is the pair <<u64[0], u64[1]>>.
u128_zero == <<0, 0>>
u128_match(a, b) == a[1] = b[1] /\ a[2] = b[2]

\* DI_Key: a path (a sequence of bytes) and a minimum timestamp.
di_key_match(a, b) == a.path = b.path /\ a.min_timestamp = b.min_timestamp

dasm_params_match(a, b) ==
    /\ a.vaddr = b.vaddr
    /\ a.arch = b.arch
    /\ a.style_flags = b.style_flags
    /\ a.syntax = b.syntax
    /\ a.base_vaddr = b.base_vaddr
    /\ di_key_match(a.dbgi_key, b.dbgi_key)

\* The style flags are a bit field, modelled as the set of the bits set.
SourceFlags == {"SourceFilesNames", "SourceLines"}

\* The inputs the callers draw from.
HashA == <<1, 2>>            \* a blob of two instructions
HashB == <<5, 1026>>         \* an empty blob; same slot as HashA
PPlain == [vaddr |-> 4096, arch |-> "x64", style_flags |-> {"Addresses"},
           syntax |-> "Intel", base_vaddr |-> 0,
           dbgi_key |-> [path |-> <<>>, min_timestamp |-> 0]]
PAnnot == [vaddr |-> 4096, arch |-> "x64",
           style_flags |-> {"Addresses", "SourceLines"},
           syntax |-> "Intel", base_vaddr |-> 4096,
           dbgi_key |-> [path |-> <<97, 46, 120>>, min_timestamp |-> 7]]

\* A request whose record is 72 bytes, every field unlike PPlain's.
PLong == [vaddr |-> 8192, arch |-> "x86",
          style_flags |-> {"CodeBytes", "SymbolNames"},
          syntax |-> "ATT", base_vaddr |-> 4096,
          dbgi_key |-> [path |-> <<47, 98, 105, 110, 47, 97, 112, 112, 46,
                                   114, 100, 105>>,
                        min_timestamp |-> 300]]

Hashes    == {HashA, HashB}
ParamsSet == {PPlain, PAnnot}
Keys == Hashes \X ParamsSet
\* The requests put on the ring directly.
RingKeys == {<<HashA, PPlain>>, <<HashB, PAnnot>>, <<HashB, PLong>>}

\* A request with every style flag set, and debug info of its own.
PFull == [vaddr |-> 4096, arch |-> "x64",
          style_flags |-> {"Addresses", "CodeBytes", "SourceFilesNames",
                           "SourceLines", "SymbolNames"},
          syntax |-> "Intel", base_vaddr |-> 4096,
          dbgi_key |-> [path |-> <<98, 46, 120>>, min_timestamp |-> 7]]
HashC == <<3, 2>>            \* a blob of three instructions and a bad byte
\* The requests whose disassembly is looked at line by line.
DecodeKeys == {HashA, HashC} \X {PPlain, PAnnot, PLong, PFull}

\* hs_data_from_hash: the blob as the sizes ud_disassemble returns for it.
hs_data_from_hash(hash) ==
    CASE hash = HashA -> <<2, 1>>
      [] hash = HashC -> <<1, 3, 2, 0, 1>>
      [] OTHER -> <<>>

SlotOf(hash)   == hash[2] % slots_count
StripeOf(slot) == slot % stripes_count
UsedSlots   == {SlotOf(h) : h \in Hashes}
UsedStripes == {StripeOf(s) : s \in UsedSlots}

\* ------------------------------------------------------------------- Info
NilInfo == [text_key |-> <<>>, insts |-> <<>>]
InstZero == [code_off |-> 0, jump_dst_vaddr |-> 0, text_range |-> <<0, 0>>]

rdi_nil == "nil"
Annotated(params, rdi) ==
    rdi # rdi_nil /\ (params.style_flags \cap SourceFlags) # {}

\* Text is a sequence of bytes.  The digits of v in n hexadecimal places,
\* with the letters from the byte `a`.
RECURSIVE Hex(_, _, _)
Hex(v, n, a) ==
    IF n = 0 THEN <<>>
    ELSE Hex(v \div 16, n - 1, a)
           \o <<IF v % 16 < 10 THEN 48 + (v % 16) ELSE a + (v % 16) - 10>>

\* udc.asm_buf after ud_disassemble, by the size of the instruction: the
\* decoder's text is its own, only its length matters here.
ud_asm_buf(size) ==
    CASE size = 1 -> <<110, 111, 112>>
      [] size = 2 -> <<105, 110, 116, 32, 51>>
      [] OTHER    -> <<108, 101, 97, 32, 97, 44, 32, 98>>

\* data.str[i] of the blob.
DataByte(hash, i) == (hash[1] * 16 + i * 7) % 256

\* The line table of the debug info: every instruction lies in one source
\* file; in "rdi" all lie on one line, in "rdi_lines" the line goes with
\* the offset.  Line 2 of the file is blank, and there are four lines.
file_normalized_full_path == <<47, 115, 46, 99>>
lines_count == 4
LineNum(rdi, voff) == IF rdi = "rdi" THEN 1 ELSE voff % lines_count
line_text(line_num) ==
    IF line_num = 2 THEN <<>> ELSE <<120, 32, 61, 32, 48 + line_num, 59>>

\* "%s%016I64X  "
addr_part(params, rdi, off) ==
    IF "Addresses" \in params.style_flags
      THEN (IF rdi # rdi_nil THEN <<32, 32>> ELSE <<>>)
             \o Hex(params.vaddr + off, 16, 65) \o <<32, 32>>
      ELSE <<>>

\* "{", then "%02x%s " for each byte of the instruction, "}" after the
\* last, then blanks up to eight bytes, then " ".
RECURSIVE CodeBytesFrom(_, _, _, _)
CodeBytesFrom(hash, off, size, byte_idx) ==
    IF ~(byte_idx < size \/ byte_idx < 16) THEN <<>>
    ELSE (IF byte_idx < size
            THEN Hex(DataByte(hash, off + byte_idx), 2, 97)
                   \o (IF byte_idx = size - 1 THEN <<125>> ELSE <<>>)
                   \o <<32>>
          ELSE IF byte_idx < 8 THEN <<32, 32, 32>>
          ELSE <<>>)
         \o CodeBytesFrom(hash, off, size, byte_idx + 1)

code_bytes_part(hash, params, off, size) ==
    IF "CodeBytes" \in params.style_flags
      THEN <<123>> \o CodeBytesFrom(hash, off, size, 0) \o <<32>>
      ELSE <<>>

\* inst_strings.total_size
RECURSIVE total_size(_)
total_size(strings) ==
    IF strings = <<>> THEN 0
    ELSE Len(Head(strings)) + total_size(Tail(strings))

\* A range that leaves the separators out of the running offset.
TextRangeWithoutSeparators(strings, inst_string) ==
    <<total_size(strings), total_size(strings) + Len(inst_string)>>

\* r1u64(total_size + node_count, total_size + node_count + size)
TextRange(strings, inst_string) ==
    <<total_size(strings) + Len(strings),
      total_size(strings) + Len(strings) + Len(inst_string)>>

\* The source lines pushed before the instruction at off: the file's name
\* when the file is not the last one seen, the line's text when the line
\* is not the last one seen.  Each is a zero record and a "> ..." string.
SourceLinesAt(params, rdi, off, last_file, last_line) ==
    LET voff == (params.vaddr + off) - params.base_vaddr
        line == LineNum(rdi, voff)
        name == IF last_file # "file"
                     /\ "SourceFilesNames" \in params.style_flags
                  THEN <<<<62, 32>> \o file_normalized_full_path>>
                  ELSE <<>>
        text == IF line # last_line
                     /\ "SourceLines" \in params.style_flags
                     /\ 0 < line /\ line < lines_count
                     /\ line_text(line) # <<>>
                  THEN <<<<62, 32>> \o line_text(line)>>
                  ELSE <<>>
    IN IF Annotated(params, rdi)
         THEN [strings |-> name \o text, last_file |-> "file",
               last_line |-> line]
         ELSE [strings |-> <<>>, last_file |-> last_file,
               last_line |-> last_line]

\* The decode loop: for(off = 0; off < data.size;) with the instruction
\* list and the string list so far; it ends when the data ends or the
\* decoder returns size 0.
RECURSIVE DecodeFrom(_, _, _, _, _, _, _)
DecodeFrom(hash, params, rdi, sizes, off, st, last) ==
    IF sizes = <<>> \/ Head(sizes) = 0 THEN st
    ELSE LET size  == Head(sizes)
             src   == SourceLinesAt(params, rdi, off, last.file, last.line)
             strs  == st.inst_strings \o src.strings
             inst_string ==
                 addr_part(params, rdi, off)
                   \o code_bytes_part(hash, params, off, size)
                   \o ud_asm_buf(size)
             inst  == [code_off |-> off, jump_dst_vaddr |-> 0,
                       text_range |-> TextRange(strs, inst_string)]
         IN DecodeFrom(hash, params, rdi, Tail(sizes), off + size,
                       [inst_list |-> st.inst_list
                                        \o [i \in 1..Len(src.strings) |->
                                              InstZero]
                                        \o <<inst>>,
                        inst_strings |-> Append(strs, inst_string)],
                       [file |-> src.last_file, line |-> src.last_line])

\* What the worker has decoded when the loop is over; nothing for an
\* architecture that is neither x64 nor x86.
Decoded(hash, params, rdi) ==
    IF params.arch \notin {"x64", "x86"}
      THEN [inst_list |-> <<>>, inst_strings |-> <<>>]
      ELSE DecodeFrom(hash, params, rdi, hs_data_from_hash(hash), 0,
                      [inst_list |-> <<>>, inst_strings |-> <<>>],
                      [file |-> "nil", line |-> -1])

DecodeInsts(hash, params, rdi) == Decoded(hash, params, rdi).inst_list

\* str8_list_join with the separator "\n": the strings with one line feed
\* between neighbours.
RECURSIVE str8_list_join(_)
str8_list_join(strings) ==
    IF strings = <<>> THEN <<>>
    ELSE IF Len(strings) = 1 THEN Head(strings)
    ELSE Head(strings) \o <<10>> \o str8_list_join(Tail(strings))

\* The text the worker submits to the hash store under text_key.
JoinedText(hash, params, rdi) ==
    str8_list_join(Decoded(hash, params, rdi).inst_strings)

TextKey(hash, params, rdi) ==
    <<hash[1], hash[2], params.vaddr, params.arch, params.style_flags,
      params.syntax, rdi, "DASM">>

MakeInfo(hash, params, rdi) ==
    [text_key |-> TextKey(hash, params, rdi),
     insts    |-> DecodeInsts(hash, params, rdi)]

\* ------------------------------------------------------------------ state
VARIABLES
    slots,            \* slot index -> the slot's list of nodes (node ids)
    free_node,        \* stripe -> the stripe's free-node stack
    nodes,            \* node id -> the DASM_Node in the stripe arena
    arenas,           \* the info arenas allocated and not released
    u2p_ring_size,
    u2p_ring_write_pos,
    u2p_ring_read_pos,
    u2p_ring_base,    \* the ring's bytes: offset -> byte, for the bytes of
                      \* the records between read_pos and write_pos
    u2p_ring_cv,      \* the threads asleep on the ring's condition variable
    u2p_ring,         \* history: the requests enqueued and not yet
                      \* dequeued, oldest first
    user_clock_idx,
    now_us,           \* os_now_microseconds
    fs_gen,           \* fs_change_gen
    env,              \* how many clock, user-clock and file events happened
    tctx,             \* caller -> its scope arena (dasm_tctx)
    caller,           \* caller -> its position and locals
    worker,           \* parse thread -> its position and locals
    ev,               \* the evictor/detector thread
    enq_count,        \* history: requests enqueued, per (hash, params)
    hist,             \* history: nodes created, when the first was,
                      \* commits made, and when the node now in the
                      \* table was last re-queued, per (hash, params)
    lim               \* the bounds of the specification being checked

shared == <<slots, free_node, nodes, arenas, u2p_ring_size, u2p_ring_write_pos,
            u2p_ring_read_pos, u2p_ring_base, u2p_ring_cv, u2p_ring,
            user_clock_idx>>
ring_vars == <<u2p_ring_size, u2p_ring_write_pos, u2p_ring_read_pos,
               u2p_ring_base, u2p_ring_cv, u2p_ring, enq_count>>
clock_vars == <<user_clock_idx, now_us, fs_gen, env, lim>>
vars == <<slots, free_node, nodes, arenas, u2p_ring_size, u2p_ring_write_pos,
          u2p_ring_read_pos, u2p_ring_base, u2p_ring_cv, u2p_ring,
          user_clock_idx, now_us, fs_gen, env,
          tctx, caller, worker, ev, enq_count, hist, lim>>

Callers == {"c1", "c2"}
Workers == {1, 2}

\* ------------------------------------------------------------- the table
\* The first node of the slot's list that matches (hash, params); 0 if none.
RECURSIVE FindIn(_, _, _)
FindIn(list, hash, params) ==
    IF list = <<>> THEN 0
    ELSE IF u128_match(hash, nodes[Head(list)].hash)
            /\ dasm_params_match(params, nodes[Head(list)].params)
         THEN Head(list)
         ELSE FindIn(Tail(list), hash, params)

SlotList(slot) == IF slot \in DOMAIN slots THEN slots[slot] ELSE <<>>

FindNode(hash, params) == FindIn(SlotList(SlotOf(hash)), hash, params)

ZeroParams == [vaddr |-> 0, arch |-> "Null", style_flags |-> {},
               syntax |-> "Intel", base_vaddr |-> 0,
               dbgi_key |-> [path |-> <<>>, min_timestamp |-> 0]]

\* MemoryZeroStruct(node)
ZeroNode ==
    [hash |-> u128_zero, params |-> ZeroParams, info_arena |-> 0, info |-> NilInfo,
     scope_ref_count |-> 0, last_time_touched_us |-> 0,
     last_user_clock_idx_touched |-> 0, last_time_requested_us |-> 0,
     last_user_clock_idx_requested |-> 0, load_count |-> 0, is_working |-> 0,
     change_gen |-> 0]

\* The evictor holds the stripe's write lock from the start of its walk of
\* a slot to the end, a parse thread from the start of its commit to the
\* end; every other locked section is a single step.
EvictorHoldsW(stripe) ==
    ev.pc \in {"walk", "enqueue"} /\ StripeOf(ev.slot_idx) = stripe
WorkerHoldsW(stripe) ==
    \E w \in Workers :
        /\ worker[w].pc = "commit_w"
        /\ StripeOf(SlotOf(worker[w].hash)) = stripe

\* A stripe lock that a commit under way does not keep others out of.
StripeFreeDespiteCommit(hash) == ~EvictorHoldsW(StripeOf(SlotOf(hash)))

StripeFree(hash) ==
    /\ ~EvictorHoldsW(StripeOf(SlotOf(hash)))
    /\ ~WorkerHoldsW(StripeOf(SlotOf(hash)))

Remove(list, n) == SelectSeq(list, LAMBDA x : x # n)

KeyOf(r) == <<r.hash, r.params>>

\* ------------------------------------------------------ the request ring
AlignUp8(pos) == (pos + 7) - ((pos + 7) % 8)

\* The bytes of an unsigned integer of n bytes, lowest first.
RECURSIVE Bytes(_, _)
Bytes(v, n) ==
    IF n = 0 THEN <<>> ELSE <<v % 256>> \o Bytes(v \div 256, n - 1)

\* The integer of the bytes.  Every integer a request carries is below
\* 2^24; bytes that make a larger one read as TooBig.
TooBig == 16777216
Value(bytes) ==
    IF \E i \in 4..Len(bytes) : bytes[i] # 0 THEN TooBig
    ELSE bytes[1] + 256 * bytes[2] + 65536 * bytes[3]

\* The integers of the enumerators and of the style flag bits.  They are
\* declared outside this file; the ring copies them as four bytes each.
ArchCode(arch) ==
    CASE arch = "x64" -> 1 [] arch = "x86" -> 2 [] OTHER -> 0
ArchOfCode(code) ==
    CASE code = 1 -> "x64" [] code = 2 -> "x86" [] OTHER -> "Null"
SyntaxCode(syntax) == IF syntax = "ATT" THEN 1 ELSE 0
SyntaxOfCode(code) == IF code = 1 THEN "ATT" ELSE "Intel"
StyleFlagBits ==
    <<"Addresses", "CodeBytes", "SourceFilesNames", "SourceLines",
      "SymbolNames">>
FlagBit(i) == 2 ^ (i - 1)
StyleFlagsCode(flags) ==
    LET bit(i) == IF StyleFlagBits[i] \in flags THEN FlagBit(i) ELSE 0
    IN bit(1) + bit(2) + bit(3) + bit(4) + bit(5)
StyleFlagsOfCode(code) ==
    {StyleFlagBits[i] : i \in {j \in 1..5 : (code \div FlagBit(j)) % 2 = 1}}

\* The bytes dasm_u2p_enqueue_req writes for a request, field by field.
RecordImage(hash, params) ==
    Bytes(hash[1], 8) \o Bytes(hash[2], 8)
      \o Bytes(params.vaddr, 8)
      \o Bytes(ArchCode(params.arch), 4)
      \o Bytes(StyleFlagsCode(params.style_flags), 4)
      \o Bytes(SyntaxCode(params.syntax), 4)
      \o Bytes(params.base_vaddr, 8)
      \o Bytes(Len(params.dbgi_key.path), 8)
      \o params.dbgi_key.path
      \o Bytes(params.dbgi_key.min_timestamp, 8)

RecordBytes(params) == ring_fixed_bytes + Len(params.dbgi_key.path)

\* ring_write: the bytes, no more of them than the ring holds, go to
\* offsets pos, pos + 1, ... modulo the size.
RingWrite(mem, size, pos, bytes) ==
    LET n      == Len(bytes)
        offs   == {(pos + i) % size : i \in 0..(n - 1)}
        idx(o) == (o + size - (pos % size)) % size
    IN [o \in DOMAIN mem \cup offs |->
          IF idx(o) < n THEN bytes[idx(o) + 1] ELSE mem[o]]

\* ring_read: n bytes from offsets pos, pos + 1, ... modulo the size.  A
\* byte that no record in flight occupies reads as 0.
RingRead(mem, size, pos, n) ==
    [i \in 1..n |-> IF (pos + i - 1) % size \in DOMAIN mem
                      THEN mem[(pos + i - 1) % size] ELSE 0]

\* The request dasm_u2p_dequeue_req reads at pos, field by field, and the
\* number of bytes it reads.  No read is longer than the ring.
RingRecordAt(mem, size, pos) ==
    LET int(off, n) == Value(RingRead(mem, size, pos + off, n))
        path_size   == Min(int(44, 8), size)
    IN [hash   |-> <<int(0, 8), int(8, 8)>>,
        params |-> [vaddr |-> int(16, 8),
                    arch |-> ArchOfCode(int(24, 4)),
                    style_flags |-> StyleFlagsOfCode(int(28, 4)),
                    syntax |-> SyntaxOfCode(int(32, 4)),
                    base_vaddr |-> int(36, 8),
                    dbgi_key |->
                      [path |-> RingRead(mem, size, pos + 52, path_size),
                       min_timestamp |-> int(52 + path_size, 8)]],
        bytes  |-> ring_fixed_bytes + path_size]

\* A dequeue that leaves read_pos where the record's last byte ends.
ReadPosUnpadded(pos) == pos

\* read_pos += 7; read_pos -= read_pos%8
ReadPosPadded(pos) == AlignUp8(pos)

\* A space check that always finds room.
RingHasRoomAlways(params) == TRUE

RingHasRoom(params) ==
    LET unconsumed_size == u2p_ring_write_pos - u2p_ring_read_pos
        available_size  == u2p_ring_size - unconsumed_size
    IN available_size >= RecordBytes(params)

\* The pass of the loop of dasm_u2p_enqueue_req that finds room: the
\* record is written, write_pos advanced and padded, and the condition
\* variable broadcast.
Enqueue(hash, params) ==
    /\ RingHasRoom(params)
    /\ u2p_ring_base' = RingWrite(u2p_ring_base, u2p_ring_size,
                                  u2p_ring_write_pos,
                                  RecordImage(hash, params))
    /\ u2p_ring_write_pos' = AlignUp8(u2p_ring_write_pos + RecordBytes(params))
    /\ u2p_ring' = Append(u2p_ring, [hash |-> hash, params |-> params])
    /\ enq_count' = [enq_count EXCEPT ![<<hash, params>>] = @ + 1]
    /\ u2p_ring_cv' = {}
    /\ UNCHANGED <<u2p_ring_size, u2p_ring_read_pos>>

\* max_U64 as a deadline: a time the clock does not reach.
max_U64 == 2147483647

\* A deadline test that always says the deadline has passed.
DeadlineAlwaysPassed(endt_us) == TRUE

DeadlinePassed(endt_us) == now_us >= endt_us

\* One pass of the loop of dasm_u2p_enqueue_req(hash, params, endt_us) by
\* thread t, which is awake: it has not waited yet, was woken by a
\* broadcast, or its wait has timed out.  ret is what the pass comes to:
\* "good" (written, returns 1), "timeout" (returns 0) or "wait" (asleep on
\* the condition variable).
EnqueuePass(t, hash, params, endt_us, ret) ==
    /\ t \notin u2p_ring_cv \/ DeadlinePassed(endt_us)
    /\ IF RingHasRoom(params)
         THEN /\ ret = "good"
              /\ Enqueue(hash, params)
         ELSE /\ ret = IF DeadlinePassed(endt_us) THEN "timeout" ELSE "wait"
              /\ u2p_ring_cv' = IF DeadlinePassed(endt_us)
                                  THEN u2p_ring_cv \ {t}
                                  ELSE u2p_ring_cv \cup {t}
              /\ UNCHANGED <<u2p_ring_size, u2p_ring_write_pos,
                             u2p_ring_read_pos, u2p_ring_base, u2p_ring,
                             enq_count>>

EnqueueRets == {"good", "timeout", "wait"}

\* ------------------------------------------------------- the scope arena
\* A thread's arena is a bump allocator: an allocation takes the bytes at
\* pos, arena_pop_to moves pos back and leaves the bytes as they are.  mem
\* maps the offset of each object whose bytes are intact to the object.
\* The sizes are those of a 64-bit build; what matters of them is which
\* allocations overlap.
sizeof_TCTX  == 8
sizeof_Scope == 24
sizeof_Touch == 80

PathCopyBytes(params) == AlignUp8(Len(params.dbgi_key.path) + 1)

Overlaps(o, osize, p, psize) == o < p + psize /\ p < o + osize

ArenaPush(ar, size, obj) ==
    LET keep == {o \in DOMAIN ar.mem :
                    ~Overlaps(o, ar.mem[o].size, ar.pos, size)}
    IN [pos |-> ar.pos + size,
        mem |-> [o \in keep \cup {ar.pos} |->
                    IF o = ar.pos THEN [obj EXCEPT !.size = size]
                    ELSE ar.mem[o]]]

IsTouch(mem, t) == t \in DOMAIN mem /\ mem[t].kind = "touch"

\* The offsets a walk from touch t visits.
RECURSIVE TouchChain(_, _, _)
TouchChain(mem, t, seen) ==
    IF t = 0 \/ t \in seen \/ ~IsTouch(mem, t) THEN seen
    ELSE TouchChain(mem, mem[t].next, seen \cup {t})

\* arena_pop_to.  Objects that no open scope can reach any more are
\* forgotten: nothing reads them again.
ArenaPopTo(ar, base_pos, open_scopes) ==
    LET reach == UNION {{sc} \cup TouchChain(ar.mem, ar.mem[sc].top_touch, {}) :
                          sc \in open_scopes}
    IN [pos |-> base_pos,
        mem |-> [o \in reach \cap DOMAIN ar.mem |-> ar.mem[o]]]

Range(seq) == {seq[i] : i \in 1..Len(seq)}
Front(seq) == SubSeq(seq, 1, Len(seq) - 1)
Last(seq)  == seq[Len(seq)]

\* ----------------------------------------------------------- the callers
\* A loop that writes hash_out whatever the lookup returned.
ReturnedWritingOut(cr, info) ==
    IF cr.rewind_idx = -1
      THEN [cr EXCEPT !.pc = "idle", !.ret = info]
    ELSE IF info.insts # <<>> \/ cr.rewind_idx + 1 >= 2
      THEN [cr EXCEPT !.pc = "idle", !.ret = info, !.hash_out = cr.hash]
    ELSE [cr EXCEPT !.pc = "key_iter", !.rewind_idx = @ + 1, !.ret = info]

\* The return of dasm_info_from_hash_params with `info`, and what the loop
\* of dasm_info_from_key_params (rewind_idx 0, then 1) does with it.  A
\* caller keeps the locals of its last call until its next one.
Returned(cr, info) ==
    IF cr.rewind_idx = -1
      THEN [cr EXCEPT !.pc = "idle", !.ret = info]
    ELSE IF info.insts # <<>>
      THEN [cr EXCEPT !.pc = "idle", !.ret = info, !.hash_out = cr.hash]
    ELSE IF cr.rewind_idx + 1 < 2
      THEN [cr EXCEPT !.pc = "key_iter", !.rewind_idx = @ + 1, !.ret = info]
    ELSE [cr EXCEPT !.pc = "idle", !.ret = info]

\* dasm_scope_touch_node__stripe_r_guarded
TouchNode(node) ==
    [node EXCEPT !.scope_ref_count = @ + 1,
                 !.last_time_touched_us = now_us,
                 !.last_user_clock_idx_touched = user_clock_idx]

TouchArena(ar, scope, node) ==
    LET pushed == ArenaPush(ar, sizeof_Touch + PathCopyBytes(node.params),
                            [kind |-> "touch", size |-> 0,
                             next |-> ar.mem[scope].top_touch,
                             hash |-> node.hash, params |-> node.params,
                             top_touch |-> 0, base_pos |-> 0])
    IN [pushed EXCEPT !.mem[scope].top_touch = ar.pos]

\* The caller after a hit: found is set, and the history of the scope gets
\* the node's key.
Touched(cr, node) ==
    LET i == CHOOSE j \in 1..Len(cr.scopes) : cr.scopes[j] = cr.scope
    IN [cr EXCEPT !.found = TRUE,
                  !.touched[i] = Append(@, <<node.hash, node.params>>)]

\* A lookup without the test for the zero hash.
IsZeroHashUntested(hash) == FALSE

IsZeroHash(hash) == u128_match(hash, u128_zero)

\* dasm_info_from_hash_params up to the end of its read-locked section.
LookupRead(c, cr0) ==
    LET cr == [cr0 EXCEPT !.found = FALSE, !.node_is_new = FALSE]
    IN
    IF IsZeroHash(cr.hash)
      THEN /\ caller' = [caller EXCEPT ![c] = Returned(cr, NilInfo)]
           /\ UNCHANGED <<nodes, tctx>>
      ELSE /\ StripeFree(cr.hash)
           /\ LET n == FindNode(cr.hash, cr.params)
              IN IF n # 0
                   THEN /\ nodes' = [nodes EXCEPT ![n] = TouchNode(@)]
                        /\ tctx' = [tctx EXCEPT
                                      ![c] = TouchArena(@, cr.scope, nodes[n])]
                        /\ caller' = [caller EXCEPT
                                      ![c] = Returned(Touched(cr, nodes[n]),
                                                      nodes[n].info)]
                   ELSE /\ caller' = [caller EXCEPT
                                      ![c] = [cr EXCEPT !.pc = "lookup_w"]]
                        /\ UNCHANGED <<nodes, tctx>>

\* A call of dasm_info_from_hash_params(scope, hash, params).
CallHash(c) ==
    /\ caller[c].pc = "idle"
    /\ caller[c].lookups < lim.lookups
    /\ \E sc \in Range(caller[c].scopes),
          k \in lim.keys :
         LookupRead(c, [caller[c] EXCEPT !.scope = sc, !.hash = k[1],
                                         !.key = <<u128_zero, u128_zero>>,
                                         !.params = k[2], !.rewind_idx = -1,
                                         !.lookups = @ + 1,
                                         !.ret = NilInfo,
                                         !.hash_out = "unwritten"])
    /\ UNCHANGED <<slots, free_node, arenas, ring_vars, clock_vars, worker, ev,
                   hist>>

\* hs_hash_from_key(key, rewind_idx): the hash store's answer, zero when it
\* has none.  A key is modelled as the pair of its answers for rewind 0, 1.
HsKeys == {<<u128_zero, HashA>>, <<HashA, HashB>>, <<HashB, HashA>>}
hs_hash_from_key(key, rewind_idx) == key[rewind_idx + 1]
KeyParams == {PPlain}

\* A call of dasm_info_from_key_params: the first iteration of its loop.
CallKey(c) ==
    /\ caller[c].pc = "idle"
    /\ caller[c].lookups < lim.lookups
    /\ \E sc \in Range(caller[c].scopes), key \in HsKeys, p \in KeyParams :
         LookupRead(c, [caller[c] EXCEPT !.scope = sc, !.key = key,
                                         !.hash = hs_hash_from_key(key, 0),
                                         !.params = p, !.rewind_idx = 0,
                                         !.lookups = @ + 1,
                                         !.ret = NilInfo,
                                         !.hash_out = "unwritten"])
    /\ UNCHANGED <<slots, free_node, arenas, ring_vars, clock_vars, worker, ev,
                   hist>>

\* The next iteration of the loop of dasm_info_from_key_params.
KeyIter(c) ==
    /\ caller[c].pc = "key_iter"
    /\ LookupRead(c, [caller[c] EXCEPT
                        !.hash = hs_hash_from_key(caller[c].key,
                                                  caller[c].rewind_idx)])
    /\ UNCHANGED <<slots, free_node, arenas, ring_vars, clock_vars, worker, ev,
                   hist>>

\* The node a miss creates: popped off the free list or pushed on the
\* stripe arena, zeroed, then given its hash and params.
NewNodeId(stripe) ==
    IF free_node[stripe] # <<>> THEN Head(free_node[stripe])
    ELSE Len(nodes) + 1

SetNode(n, node) ==
    IF n <= Len(nodes) THEN [nodes EXCEPT ![n] = node] ELSE Append(nodes, node)

\* A write-locked section that creates the node without looking again.
WriteSearchSkipped(hash, params) == 0

\* The search repeated under the write lock.
WriteSearch(hash, params) == FindNode(hash, params)

\* The write-locked section of dasm_info_from_hash_params.
LookupWrite(c) ==
    LET cr     == caller[c]
        slot   == SlotOf(cr.hash)
        stripe == StripeOf(slot)
        n      == NewNodeId(stripe)
    IN /\ cr.pc = "lookup_w"
       /\ StripeFree(cr.hash)
       /\ IF WriteSearch(cr.hash, cr.params) = 0
            THEN /\ free_node' = [free_node EXCEPT ![stripe] =
                                    IF @ # <<>> THEN Tail(@) ELSE @]
                 /\ nodes' = SetNode(n, [ZeroNode EXCEPT !.hash = cr.hash,
                                                         !.params = cr.params])
                 /\ slots' = [slots EXCEPT ![slot] = Append(@, n)]
                 /\ hist' = [hist EXCEPT
                               !.created[<<cr.hash, cr.params>>] = @ + 1,
                               !.first_created_us[<<cr.hash, cr.params>>] =
                                   IF hist.created[<<cr.hash, cr.params>>] = 0
                                     THEN now_us ELSE @,
                               !.requeued_us[<<cr.hash, cr.params>>] = -1,
                               !.requeued_clock[<<cr.hash, cr.params>>] = -1]
                 /\ caller' = [caller EXCEPT ![c] =
                                 [cr EXCEPT !.pc = "lookup_enq",
                                            !.node_is_new = TRUE]]
            ELSE /\ caller' = [caller EXCEPT ![c] = Returned(cr, NilInfo)]
                 /\ UNCHANGED <<free_node, nodes, slots, hist>>
       /\ UNCHANGED <<arenas, ring_vars, clock_vars, tctx, worker, ev>>

\* A lookup that forgets it created the node.
NodeIsNewForgotten(cr) == FALSE

NodeIsNew(cr) == cr.node_is_new

\* if(node_is_new) dasm_u2p_enqueue_req(hash, params, max_U64); return info
\* With that deadline the call returns only once the record is written.
LookupEnqueue(c) ==
    LET cr == caller[c]
    IN /\ cr.pc = "lookup_enq"
       /\ IF NodeIsNew(cr)
            THEN \E ret \in {"good", "wait"} :
                   /\ EnqueuePass(c, cr.hash, cr.params, max_U64, ret)
                   /\ caller' = IF ret = "good"
                                  THEN [caller EXCEPT
                                          ![c] = Returned(cr, NilInfo)]
                                  ELSE caller
            ELSE /\ UNCHANGED ring_vars
                 /\ caller' = [caller EXCEPT ![c] = Returned(cr, NilInfo)]
       /\ UNCHANGED <<slots, free_node, nodes, arenas, clock_vars, tctx,
                      worker, ev, hist>>

\* dasm_scope_open, by a thread holding fewer than `depth` open scopes.
ScopeOpen(c, depth) ==
    LET ar == tctx[c]
    IN /\ caller[c].pc = "idle"
       /\ caller[c].opens < lim.opens
       /\ Len(caller[c].scopes) < depth
       /\ tctx' = [tctx EXCEPT ![c] =
                     ArenaPush(ar, sizeof_Scope,
                               [kind |-> "scope", size |-> 0, next |-> 0,
                                hash |-> u128_zero, params |-> ZeroParams,
                                top_touch |-> 0, base_pos |-> ar.pos])]
       /\ caller' = [caller EXCEPT ![c].scopes = Append(@, ar.pos),
                                   ![c].touched = Append(@, <<>>),
                                   ![c].opens = @ + 1]
       /\ UNCHANGED <<shared, now_us, fs_gen, env, lim, worker, ev, enq_count,
                      hist>>

\* What reading the touch at t yields.  A touch whose bytes were given to a
\* later allocation reads as whatever lies there: as that object when it is
\* a touch at the same offset, as anything otherwise.
TouchReads(mem, t) ==
    IF IsTouch(mem, t)
      THEN {[hash |-> mem[t].hash, params |-> mem[t].params,
             next |-> mem[t].next]}
      ELSE {[hash |-> k[1], params |-> k[2], next |-> 0] :
              k \in Keys \cup {<<u128_zero, ZeroParams>>}}

\* A U64 reference count is kept as its representative around 0: -1 stands
\* for 2^64 - 1.
\* dasm_scope_close of the innermost open scope: one touch per step, each
\* in its own read-locked section; the step of the last touch pops the
\* arena.
ScopeClose(c) ==
    LET cr    == caller[c]
        ar    == tctx[c]
        scope == Last(cr.scopes)
        t     == IF cr.pc = "idle" THEN ar.mem[scope].top_touch ELSE cr.t
        done ==
            /\ tctx' = [tctx EXCEPT ![c] =
                          ArenaPopTo(ar, ar.mem[scope].base_pos,
                                     Range(Front(cr.scopes)))]
            /\ caller' = [caller EXCEPT ![c] =
                            [cr EXCEPT !.pc = "idle", !.t = 0,
                                       !.scopes = Front(@),
                                       !.touched = Front(@)]]
    IN /\ cr.pc \in {"idle", "close"}
       /\ cr.scopes # <<>>
       /\ IF t = 0
            THEN done /\ UNCHANGED nodes
            ELSE \E rd \in TouchReads(ar.mem, t) :
                   LET n == FindNode(rd.hash, rd.params)
                   IN /\ StripeFree(rd.hash)
                      /\ IF n # 0
                           THEN /\ nodes[n].scope_ref_count > -MaxUnderflow
                                /\ nodes' = [nodes EXCEPT
                                               ![n].scope_ref_count = @ - 1]
                           ELSE UNCHANGED nodes
                      /\ IF rd.next = 0
                           THEN done
                           ELSE /\ caller' = [caller EXCEPT
                                                ![c].pc = "close",
                                                ![c].t = rd.next]
                                /\ UNCHANGED tctx
       /\ UNCHANGED <<slots, free_node, arenas, ring_vars, clock_vars, worker,
                      ev, hist>>

\* ------------------------------------------------------ the parse workers
IdleWorker ==
    [pc |-> "dequeue", hash |-> u128_zero, params |-> ZeroParams,
     change_gen |-> 0, rdi |-> rdi_nil, info_arena |-> 0, info |-> NilInfo]

\* dasm_u2p_dequeue_req, then the snapshot of fs_change_gen.  A parse
\* thread waiting for a record is woken by the broadcast of the enqueue
\* that writes one, so its wait is the step not being enabled; the workers
\* waiting are alike, so the one that gets the request is taken to be the
\* first of them.  The bytes read are forgotten: nothing reads them before
\* they are written again.  The broadcast at the end is handed the mutex,
\* not the condition variable: what it does to the threads asleep on the
\* condition variable is not defined, they sleep on or they wake.
Dequeue(w) ==
    LET unconsumed_size == u2p_ring_write_pos - u2p_ring_read_pos
        req  == RingRecordAt(u2p_ring_base, u2p_ring_size, u2p_ring_read_pos)
        next == ReadPosPadded(u2p_ring_read_pos + req.bytes)
        read == {pos % u2p_ring_size : pos \in u2p_ring_read_pos..(next - 1)}
    IN /\ worker[w].pc = "dequeue"
       /\ \A o \in Workers : o < w => worker[o].pc # "dequeue"
       /\ unconsumed_size >= ring_fixed_bytes
       /\ u2p_ring_read_pos' = next
       /\ u2p_ring_base' = [o \in DOMAIN u2p_ring_base \ read |->
                              u2p_ring_base[o]]
       /\ u2p_ring' = IF u2p_ring = <<>> THEN <<>> ELSE Tail(u2p_ring)
       /\ u2p_ring_cv' \in {u2p_ring_cv, {}}
       /\ worker' = [worker EXCEPT ![w] =
                       [IdleWorker EXCEPT !.pc = "take", !.hash = req.hash,
                                          !.params = req.params,
                                          !.change_gen = fs_gen]]
       /\ UNCHANGED <<slots, free_node, nodes, arenas, u2p_ring_size,
                      u2p_ring_write_pos, enq_count, clock_vars, tctx, caller,
                      ev, hist>>

\* arena_alloc: an arena nothing refers to.
NewArena ==
    LET used == arenas \cup {nodes[i].info_arena : i \in 1..Len(nodes)}
                       \cup {worker[w].info_arena : w \in Workers}
    IN CHOOSE a \in 1..(Cardinality(used) + 1) :
           a \notin used /\ \A b \in 1..(a - 1) : b \in used

\* di_rdi_from_key: the parsed debug info of the key, or the nil one.
RdiChoices(params) ==
    IF Len(params.dbgi_key.path) = 0 THEN {rdi_nil}
    ELSE IF params.dbgi_key.path = PFull.dbgi_key.path
      THEN {rdi_nil, "rdi_lines"}
    ELSE {rdi_nil, "rdi"}

\* "take task": the compare-and-swap of is_working under the read lock;
\* the worker that got the task then builds its Info in a new arena.
\* A take that does not look at is_working.
GotTaskWithoutCas(n) == n # 0

GotTask(n) == n # 0 /\ nodes[n].is_working = 0

TakeTask(w) ==
    LET wr == worker[w]
        n  == FindNode(wr.hash, wr.params)
    IN /\ wr.pc = "take"
       /\ StripeFree(wr.hash)
       /\ IF GotTask(n)
            THEN /\ nodes' = [nodes EXCEPT ![n].is_working = 1]
                 /\ arenas' = arenas \cup {NewArena}
                 /\ \E rdi \in RdiChoices(wr.params) :
                      worker' = [worker EXCEPT ![w] =
                                   [wr EXCEPT !.pc = "commit", !.rdi = rdi,
                                              !.info_arena = NewArena,
                                              !.info = MakeInfo(wr.hash,
                                                         wr.params, rdi)]]
            ELSE /\ worker' = [worker EXCEPT ![w] = IdleWorker]
                 /\ UNCHANGED <<nodes, arenas>>
       /\ UNCHANGED <<slots, free_node, ring_vars, clock_vars, tctx, caller,
                      ev, hist>>

\* "commit results to cache": the write lock is taken, the node looked
\* for, and into the node found go info_arena and the first half of the
\* Info.  With no node found the section ends at once.
CommitBegin(w) ==
    LET wr == worker[w]
        n  == FindNode(wr.hash, wr.params)
    IN /\ wr.pc = "commit"
       /\ StripeFree(wr.hash)
       /\ IF n # 0
            THEN /\ nodes' = [nodes EXCEPT
                                ![n].info_arena = wr.info_arena,
                                ![n].info.text_key = wr.info.text_key]
                 /\ worker' = [worker EXCEPT ![w].pc = "commit_w"]
            ELSE /\ worker' = [worker EXCEPT ![w] = IdleWorker]
                 /\ UNCHANGED nodes
       /\ UNCHANGED <<slots, free_node, arenas, ring_vars, clock_vars, tctx,
                      caller, ev, hist>>

\* What the rest of the commit writes into the node.
CommitNode(node, wr) ==
    [node EXCEPT !.info_arena = wr.info_arena,
                 !.info = wr.info,
                 !.change_gen = IF Annotated(wr.params, wr.rdi)
                                  THEN wr.change_gen ELSE 0,
                 !.is_working = 0,
                 !.load_count = @ + 1]

\* The rest of the commit: the second half of the Info, change_gen,
\* is_working and load_count; then the write lock is released.
Commit(w) ==
    LET wr == worker[w]
        n  == FindNode(wr.hash, wr.params)
    IN /\ wr.pc = "commit_w"
       /\ nodes' = IF n # 0 THEN [nodes EXCEPT ![n] = CommitNode(@, wr)]
                   ELSE nodes
       /\ worker' = [worker EXCEPT ![w] = IdleWorker]
       /\ hist' = [hist EXCEPT !.committed[<<wr.hash, wr.params>>] =
                                   IF n # 0 THEN @ + 1 ELSE @]
       /\ UNCHANGED <<slots, free_node, arenas, ring_vars, clock_vars, tctx,
                      caller, ev>>

\* ------------------------------------------------- the evictor/detector
\* An eviction test that ignores the pins.
EvictCondIgnoringPins(node) ==
    /\ node.last_time_touched_us + evict_threshold_us <= ev.check_time_us
    /\ node.last_user_clock_idx_touched + evict_threshold_user_clocks
           <= ev.check_time_user_clocks
    /\ node.load_count # 0
    /\ node.is_working = 0

\* An eviction test that ignores load_count.
EvictCondIgnoringLoads(node) ==
    /\ node.scope_ref_count = 0
    /\ node.last_time_touched_us + evict_threshold_us <= ev.check_time_us
    /\ node.last_user_clock_idx_touched + evict_threshold_user_clocks
           <= ev.check_time_user_clocks
    /\ node.is_working = 0

\* An eviction test that does not look at is_working.
EvictCondIgnoringWork(node) ==
    /\ node.scope_ref_count = 0
    /\ node.last_time_touched_us + evict_threshold_us <= ev.check_time_us
    /\ node.last_user_clock_idx_touched + evict_threshold_user_clocks
           <= ev.check_time_user_clocks
    /\ node.load_count # 0

EvictCond(node) ==
    /\ node.scope_ref_count = 0
    /\ node.last_time_touched_us + evict_threshold_us <= ev.check_time_us
    /\ node.last_user_clock_idx_touched + evict_threshold_user_clocks
           <= ev.check_time_user_clocks
    /\ node.load_count # 0
    /\ node.is_working = 0

\* A requeue test that ignores the user clock.
RequeueCondIgnoringUserClocks(node) ==
    /\ node.change_gen # 0
    /\ node.change_gen # ev.change_gen
    /\ node.last_time_requested_us + retry_threshold_us <= ev.check_time_us

\* A requeue test that ignores the time of the last request.
RequeueCondUnthrottled(node) ==
    /\ node.change_gen # 0
    /\ node.change_gen # ev.change_gen

RequeueCond(node) ==
    /\ node.change_gen # 0
    /\ node.change_gen # ev.change_gen
    /\ node.last_time_requested_us + retry_threshold_us <= ev.check_time_us
    /\ node.last_user_clock_idx_requested + retry_threshold_user_clocks
           <= ev.check_time_user_clocks

\* The top of a sweep: the three snapshots.
SweepBegin ==
    /\ ev.pc = "sleep"
    /\ now_us >= ev.wake_us
    /\ ev' = [ev EXCEPT !.pc = "scan",
                        !.change_gen = fs_gen,
                        !.check_time_us = now_us,
                        !.check_time_user_clocks = user_clock_idx,
                        !.slot_idx = CHOOSE s \in UsedSlots :
                                        \A o \in UsedSlots : s <= o]
    /\ UNCHANGED <<shared, now_us, fs_gen, env, lim, tctx, caller, worker,
                   enq_count, hist>>

\* The evictor after slot ev.slot_idx: on to the next slot that can hold a
\* node, or to sleep for 100 ms after the last.
NextSlot(e) ==
    LET later == {s \in UsedSlots : s > e.slot_idx}
    IN IF later = {}
         THEN [e EXCEPT !.pc = "sleep", !.n = 0, !.req = 0, !.slot_idx = 0,
                        !.change_gen = 0, !.check_time_us = 0,
                        !.check_time_user_clocks = 0,
                        !.wake_us = now_us + sleep_us]
         ELSE [e EXCEPT !.pc = "scan", !.n = 0, !.req = 0,
                        !.slot_idx = CHOOSE s \in later :
                                        \A o \in later : s <= o]

\* A scan that looks for stale nodes only.
SlotHasWorkStaleOnly(slot) ==
    \E i \in 1..Len(slots[slot]) : RequeueCond(nodes[slots[slot][i]])

SlotHasWork(slot) ==
    \E i \in 1..Len(slots[slot]) :
        \/ EvictCond(nodes[slots[slot][i]])
        \/ RequeueCond(nodes[slots[slot][i]])

\* The read-locked look at a slot: is there a node to evict or re-queue?
Scan ==
    /\ ev.pc = "scan"
    /\ ~WorkerHoldsW(StripeOf(ev.slot_idx))
    /\ ev' = IF SlotHasWork(ev.slot_idx) THEN [ev EXCEPT !.pc = "wlock"]
             ELSE NextSlot(ev)
    /\ UNCHANGED <<shared, now_us, fs_gen, env, lim, tctx, caller, worker,
                   enq_count, hist>>

Successor(list, n) ==
    LET i == CHOOSE j \in 1..Len(list) : list[j] = n
    IN IF i < Len(list) THEN list[i + 1] ELSE 0

\* The evictor past a node of its walk: at the node after it, or past the
\* slot.
PastNode(e, next) ==
    IF next = 0 THEN NextSlot(e)
    ELSE [e EXCEPT !.pc = "walk", !.n = next, !.req = 0]

\* The stamps of a request the evictor has put into the ring for node n.
Requested(n) ==
    /\ nodes' = [nodes EXCEPT
                   ![n].last_time_requested_us = now_us,
                   ![n].last_user_clock_idx_requested =
                        ev.check_time_user_clocks]
    /\ hist' = [hist EXCEPT
                   !.requeued_us[KeyOf(nodes[n])] = now_us,
                   !.requeued_clock[KeyOf(nodes[n])] = user_clock_idx]

\* One node of the write-locked walk of a slot: evict it if it is idle,
\* then re-queue it if its change_gen is stale.  The re-queue has a
\* deadline of max_U64: when the ring has no room the evictor goes to
\* sleep on the condition variable inside dasm_u2p_enqueue_req, with the
\* stripe still write-locked, and the next pass of that loop is a step of
\* its own.
Walk ==
    LET slot   == ev.slot_idx
        stripe == StripeOf(slot)
        list   == slots[slot]
        n      == IF ev.pc = "wlock"
                    THEN (IF list = <<>> THEN 0 ELSE Head(list))
                    ELSE ev.n
    IN \/ /\ ev.pc \in {"wlock", "walk"}
          /\ ~WorkerHoldsW(stripe)
          /\ IF n = 0
               THEN /\ ev' = NextSlot(ev)
                    /\ UNCHANGED <<slots, free_node, nodes, arenas, ring_vars,
                                   hist>>
               ELSE LET node  == nodes[n]
                        next  == Successor(list, n)
                        evict == EvictCond(node)
                        retry == RequeueCond(node)
                    IN /\ slots' = IF evict
                                     THEN [slots EXCEPT ![slot] = Remove(@, n)]
                                     ELSE slots
                       /\ arenas' = IF evict /\ node.info_arena # 0
                                      THEN arenas \ {node.info_arena}
                                      ELSE arenas
                       /\ free_node' = IF evict
                                         THEN [free_node EXCEPT
                                                 ![stripe] = <<n>> \o @]
                                         ELSE free_node
                       /\ IF retry
                            THEN \E ret \in {"good", "wait"} :
                                   /\ EnqueuePass("ev", node.hash, node.params,
                                                  max_U64, ret)
                                   /\ IF ret = "good"
                                        THEN /\ Requested(n)
                                             /\ ev' = PastNode(ev, next)
                                        ELSE /\ UNCHANGED <<nodes, hist>>
                                             /\ ev' = [ev EXCEPT
                                                         !.pc = "enqueue",
                                                         !.n = next,
                                                         !.req = n]
                            ELSE /\ UNCHANGED <<nodes, ring_vars, hist>>
                                 /\ ev' = PastNode(ev, next)
       \/ /\ ev.pc = "enqueue"
          /\ \E ret \in {"good", "wait"} :
               /\ EnqueuePass("ev", nodes[ev.req].hash, nodes[ev.req].params,
                              max_U64, ret)
               /\ IF ret = "good"
                    THEN /\ Requested(ev.req)
                         /\ ev' = PastNode(ev, ev.n)
                    ELSE UNCHANGED <<nodes, hist, ev>>
          /\ UNCHANGED <<slots, free_node, arenas>>
       /\ UNCHANGED <<clock_vars, tctx, caller, worker>>

\* --------------------------------------------------------- environment
\* The wall clock advances, by one of the thresholds the evictor compares
\* against.
TickSteps == {retry_threshold_us, evict_threshold_us}

Tick ==
    /\ env.ticks < lim.ticks
    /\ \E d \in lim.tick_steps : now_us' = now_us + d
    /\ env' = [env EXCEPT !.ticks = @ + 1]
    /\ UNCHANGED <<slots, free_node, nodes, arenas, ring_vars, user_clock_idx,
                   fs_gen, lim, tctx, caller, worker, ev, hist>>

\* dasm_user_clock_tick, once or for ten frames in a row.
UserClockTick ==
    /\ env.user_ticks < lim.user_ticks
    /\ \E k \in {1, evict_threshold_user_clocks} :
           user_clock_idx' = user_clock_idx + k
    /\ env' = [env EXCEPT !.user_ticks = @ + 1]
    /\ UNCHANGED <<slots, free_node, nodes, arenas, ring_vars, now_us, fs_gen,
                   lim, tctx, caller, worker, ev, hist>>

\* A watched file changes: fs_change_gen goes up.
FsChange ==
    /\ env.fs_changes < lim.fs_changes
    /\ fs_gen' = fs_gen + 1
    /\ env' = [env EXCEPT !.fs_changes = @ + 1]
    /\ UNCHANGED <<slots, free_node, nodes, arenas, ring_vars, user_clock_idx,
                   now_us, lim, tctx, caller, worker, ev, hist>>

\* ------------------------------------------------------ specification
IdleCaller ==
    [pc |-> "idle", scopes |-> <<>>, touched |-> <<>>, scope |-> 0,
     hash |-> u128_zero,
     key |-> <<u128_zero, u128_zero>>,
     params |-> ZeroParams, rewind_idx |-> -1, found |-> FALSE,
     node_is_new |-> FALSE,
     t |-> 0, ret |-> NilInfo, hash_out |-> "unwritten", lookups |-> 0,
     opens |-> 0,
     endt_us |-> 0, good |-> 0, waited |-> FALSE, calls |-> 0]

\* The state dasm_init leaves, before any thread has run.  fs_change_gen
\* counts the changes of watched files so far: l.fs_gens are the counts it
\* may stand at.
InitWith(l) ==
    /\ slots = [s \in UsedSlots |-> <<>>]
    /\ free_node = [s \in UsedStripes |-> <<>>]
    /\ nodes = <<>>
    /\ arenas = {}
    /\ u2p_ring_size = l.ring_size
    /\ u2p_ring_write_pos = 0
    /\ u2p_ring_read_pos = 0
    /\ u2p_ring_base = <<>>
    /\ u2p_ring_cv = {}
    /\ u2p_ring = <<>>
    /\ user_clock_idx = 0
    /\ now_us = 0
    /\ fs_gen \in l.fs_gens
    /\ env = [ticks |-> 0, user_ticks |-> 0, fs_changes |-> 0]
    /\ tctx = [c \in Callers |-> [pos |-> sizeof_TCTX, mem |-> <<>>]]
    /\ caller = [c \in Callers |-> IdleCaller]
    /\ worker = [w \in Workers |-> IdleWorker]
    /\ ev = [pc |-> "sleep", change_gen |-> 0, check_time_us |-> 0,
             check_time_user_clocks |-> 0, slot_idx |-> 0, n |-> 0,
             req |-> 0, wake_us |-> 0]
    /\ enq_count = [k \in l.history |-> 0]
    /\ hist = [created |-> [k \in l.history |-> 0],
               first_created_us |-> [k \in l.history |-> 0],
               committed |-> [k \in l.history |-> 0],
               requeued_us |-> [k \in l.history |-> -1],
               requeued_clock |-> [k \in l.history |-> -1]]
    /\ lim = l

WorkerNext(ws) ==
    \/ \E w \in ws : Dequeue(w)
    \/ \E w \in ws : TakeTask(w)
    \/ \E w \in ws : CommitBegin(w)
    \/ \E w \in ws : Commit(w)

EvictorNext ==
    \/ SweepBegin
    \/ Scan
    \/ Walk

Init ==
    InitWith([lookups |-> MaxLookups, opens |-> MaxOpens, ticks |-> MaxTicks,
              user_ticks |-> MaxUserTicks, fs_changes |-> MaxFsChanges,
              tick_steps |-> TickSteps, fs_gens |-> {1},
              ring_size |-> ring_size_init, history |-> Keys,
              keys |-> {<<HashA, PAnnot>>, <<u128_zero, PPlain>>}])

Next ==
    \/ ScopeOpen("c1", 1)
    \/ ScopeClose("c1")
    \/ CallHash("c1")
    \/ CallKey("c1")
    \/ KeyIter("c1")
    \/ LookupWrite("c1")
    \/ LookupEnqueue("c1")
    \/ WorkerNext({1})
    \/ EvictorNext
    \/ Tick
    \/ UserClockTick
    \/ FsChange

Spec == Init /\ [][Next]_vars

\* Two threads that look the same key up at the same time, two parse
\* threads, the evictor and the environment, started before or after the
\* first change of a watched file.
InitRace ==
    InitWith([lookups |-> RaceLookups, opens |-> MaxOpens, ticks |-> MaxTicks,
              user_ticks |-> MaxUserTicks, fs_changes |-> MaxFsChanges,
              tick_steps |-> TickSteps, fs_gens |-> {0, 1},
              ring_size |-> ring_size_init, history |-> Keys,
              keys |-> {<<HashA, PAnnot>>}])

CallerNext(c) ==
    \/ ScopeOpen(c, 1)
    \/ CallHash(c)
    \/ LookupWrite(c)
    \/ LookupEnqueue(c)

NextRace ==
    \/ \E c \in Callers : CallerNext(c)
    \/ WorkerNext(Workers)
    \/ EvictorNext
    \/ Tick
    \/ UserClockTick
    \/ FsChange

SpecRace == InitRace /\ [][NextRace]_vars

\* One thread with a scope opened inside another, two keys of one slot,
\* one parse thread.
InitNest ==
    InitWith([lookups |-> NestLookups, opens |-> NestOpens, ticks |-> 0,
              user_ticks |-> 0, fs_changes |-> 0, tick_steps |-> {},
              fs_gens |-> {1},
              ring_size |-> ring_size_init, history |-> Keys,
              keys |-> {<<HashA, PPlain>>, <<HashB, PPlain>>}])

NextNest ==
    \/ ScopeOpen("c1", NestDepth)
    \/ ScopeClose("c1")
    \/ CallHash("c1")
    \/ LookupWrite("c1")
    \/ LookupEnqueue("c1")
    \/ WorkerNext({1})

SpecNest == InitNest /\ [][NextNest]_vars

\* One thread that looks one key up by hash, one parse thread, the evictor
\* and a clock that advances twice: time for two sweeps.
InitSweep ==
    InitWith([lookups |-> MaxLookups, opens |-> MaxOpens, ticks |-> SweepTicks,
              user_ticks |-> SweepUserTicks, fs_changes |-> MaxFsChanges,
              tick_steps |-> TickSteps, fs_gens |-> {1},
              ring_size |-> ring_size_init, history |-> Keys,
              keys |-> {<<HashA, PAnnot>>}])

NextSweep ==
    \/ ScopeOpen("c1", 1)
    \/ ScopeClose("c1")
    \/ CallHash("c1")
    \/ LookupWrite("c1")
    \/ LookupEnqueue("c1")
    \/ WorkerNext({1})
    \/ EvictorNext
    \/ Tick
    \/ UserClockTick
    \/ FsChange

SpecSweep == InitSweep /\ [][NextSweep]_vars

\* The same threads with one lookup: the node is made once, and loaded
\* again only through the evictor's re-queue.
InitClaim ==
    InitWith([lookups |-> ClaimLookups, opens |-> MaxOpens,
              ticks |-> SweepTicks, user_ticks |-> SweepUserTicks,
              fs_changes |-> MaxFsChanges, tick_steps |-> TickSteps,
              fs_gens |-> {1}, ring_size |-> ring_size_init,
              history |-> Keys, keys |-> {<<HashA, PAnnot>>}])

SpecClaim == InitClaim /\ [][NextSweep]_vars

\* ------------------------------------------------------- the ring alone
\* dasm_u2p_enqueue_req called with a request and a deadline, as the
\* ring's own callers inside this file call it.
CallEnqueue(c) ==
    /\ caller[c].pc = "idle"
    /\ caller[c].calls < lim.calls
    /\ \E k \in lim.keys, endt_us \in lim.deadlines :
         caller' = [caller EXCEPT ![c] =
                      [@ EXCEPT !.pc = "enq", !.hash = k[1], !.params = k[2],
                                !.endt_us = endt_us, !.good = 0,
                                !.waited = FALSE, !.calls = @ + 1]]
    /\ UNCHANGED <<slots, free_node, nodes, arenas, ring_vars, clock_vars,
                   tctx, worker, ev, hist>>

\* A pass of the call's loop; the call returns `good` unless the pass
\* ends in the wait, and its arguments end with it.
EnqueueReq(c) ==
    LET cr   == caller[c]
        back == [cr EXCEPT !.pc = "idle", !.hash = u128_zero,
                           !.params = ZeroParams, !.endt_us = 0]
    IN /\ cr.pc = "enq"
       /\ \E ret \in EnqueueRets :
            /\ EnqueuePass(c, cr.hash, cr.params, cr.endt_us, ret)
            /\ caller' = [caller EXCEPT ![c] =
                  CASE ret = "good"    -> [back EXCEPT !.good = 1]
                    [] ret = "timeout" -> [back EXCEPT !.good = 0]
                    [] ret = "wait"    -> [cr EXCEPT !.waited = TRUE]]
       /\ UNCHANGED <<slots, free_node, nodes, arenas, clock_vars, tctx,
                      worker, ev, hist>>

\* A ring of 128 bytes, two threads that enqueue with deadlines in the
\* past, one second ahead and never, and one parse thread that dequeues.
ring_size_small == 128
RingDeadlines == {0, retry_threshold_us, max_U64}

InitRing ==
    InitWith([lookups |-> 0, opens |-> 0, ticks |-> RingTicks,
              user_ticks |-> 0, fs_changes |-> 0,
              tick_steps |-> {retry_threshold_us}, fs_gens |-> {1},
              ring_size |-> ring_size_small, keys |-> RingKeys,
              history |-> RingKeys,
              calls |-> RingCalls, deadlines |-> RingDeadlines])

NextRing ==
    \/ \E c \in Callers : CallEnqueue(c)
    \/ \E c \in Callers : EnqueueReq(c)
    \/ Dequeue(1)
    \/ TakeTask(1)
    \/ Tick

SpecRing == InitRing /\ [][NextRing]_vars

\* ------------------------------------------------------- the full ring
\* One caller thread that looks up more blobs than the small ring holds
\* requests, one parse thread, the evictor, a file change and an advance
\* of the clocks that makes a loaded node stale.
ring_size_one == 64
JamKeys == {<<HashA, PAnnot>>, <<HashA, PPlain>>, <<HashB, PPlain>>}

InitJam ==
    InitWith([lookups |-> JamLookups, opens |-> 1, ticks |-> 1,
              user_ticks |-> 1, fs_changes |-> 1,
              tick_steps |-> {retry_threshold_us}, fs_gens |-> {1},
              ring_size |-> ring_size_one, history |-> JamKeys,
              keys |-> JamKeys])

NextJam ==
    \/ ScopeOpen("c1", 1)
    \/ CallHash("c1")
    \/ LookupWrite("c1")
    \/ LookupEnqueue("c1")
    \/ WorkerNext({1})
    \/ EvictorNext
    \/ Tick
    \/ UserClockTick
    \/ FsChange

SpecJam == InitJam /\ [][NextJam]_vars

\* ---------------------------------------------------- the decode alone
\* One caller thread that looks up blobs under every kind of style, and
\* one parse thread that disassembles them.
InitDecode ==
    InitWith([lookups |-> DecodeLookups, opens |-> 1, ticks |-> 0,
              user_ticks |-> 0, fs_changes |-> 0, tick_steps |-> {},
              fs_gens |-> {1}, ring_size |-> ring_size_init,
              history |-> DecodeKeys,
              keys |-> DecodeKeys])

NextDecode ==
    \/ ScopeOpen("c1", 1)
    \/ ScopeClose("c1")
    \/ CallHash("c1")
    \/ LookupWrite("c1")
    \/ LookupEnqueue("c1")
    \/ WorkerNext({1})

SpecDecode == InitDecode /\ [][NextDecode]_vars

\* ---------------------------------------------------------- properties
NodeIds == 1..Len(nodes)
InTable(n) == \E s \in UsedSlots : \E i \in 1..Len(slots[s]) : slots[s][i] = n
SameKey(a, b) == u128_match(a.hash, b.hash) /\ dasm_params_match(a.params, b.params)

\* This step is one in which dasm_info_from_hash_params, called by c for
\* (caller'[c].hash, caller'[c].params), returns.
LookupReturns(c) ==
    /\ caller'[c] # caller[c]
    /\ caller'[c].pc \in {"idle", "key_iter"}
    /\ \/ caller[c].pc \in {"lookup_w", "lookup_enq", "key_iter"}
       \/ caller'[c].lookups = caller[c].lookups + 1

\* This step is the evictor's visit of node n in its write-locked walk.
WalkVisits(n) ==
    /\ ev.pc \in {"wlock", "walk"}
    /\ ev' # ev
    /\ n # 0
    /\ n = IF ev.pc = "walk" THEN ev.n
           ELSE IF slots[ev.slot_idx] = <<>> THEN 0
           ELSE Head(slots[ev.slot_idx])

\* Idle for 10 s and for 10 user clocks, as the sweep's snapshots see it.
IdleAtSnapshot(node) ==
    /\ node.last_time_touched_us + 10000000 <= ev.check_time_us
    /\ node.last_user_clock_idx_touched + 10 <= ev.check_time_user_clocks

\* C1: whatever the interleaving of lookups, commits and sweeps, no slot
\* list holds two nodes with the same (hash, params).
AtMostOneNodePerKey ==
    \A s \in UsedSlots : \A i, j \in 1..Len(slots[s]) :
        i < j => ~SameKey(nodes[slots[s][i]], nodes[slots[s][j]])

\* C1's case: one thread has created the node and not yet returned, and the
\* other, racing on the same miss, has been through its write-locked
\* section without creating a second one.
RacedOnOneMiss ==
    \E c, d \in Callers :
        /\ c # d
        /\ caller[c].pc = "lookup_enq" /\ caller[c].node_is_new
        /\ caller[d].pc = "idle" /\ caller[d].lookups = 1
        /\ ~caller[d].found /\ ~caller[d].node_is_new
        /\ SameKey(caller[c], caller[d])
        /\ hist.created[KeyOf(caller[c])] = 1

\* C2: no step unlinks a node whose scope_ref_count is above zero or
\* releases its info_arena.
PinnedNodeStays ==
    [][\A n \in NodeIds :
         (InTable(n) /\ nodes[n].scope_ref_count > 0)
            => /\ InTable(n)'
               /\ nodes[n].info_arena # 0 => nodes[n].info_arena \in arenas']_vars

\* C2's case: the evictor's walk has passed a pinned node that is loaded,
\* not being worked on and idle beyond both thresholds.
WalkPassedPinnedNode ==
    /\ ev.pc = "walk"
    /\ \E i, j \in 1..Len(slots[ev.slot_idx]) :
         LET node == nodes[slots[ev.slot_idx][i]]
         IN /\ i < j
            /\ slots[ev.slot_idx][j] = ev.n
            /\ node.scope_ref_count > 0
            /\ node.load_count # 0
            /\ node.is_working = 0
            /\ IdleAtSnapshot(node)

\* The parse thread has a task: it is past a successful compare-and-swap
\* and not through its commit.
Committing(w) == worker[w].pc \in {"commit", "commit_w"}

\* The parse threads that hold the task of the node.
Holders(node) ==
    {w \in Workers : Committing(w) /\ SameKey(worker[w], node)}

SingleFlightState ==
    /\ \A n \in NodeIds :
         InTable(n) => Cardinality(Holders(nodes[n])) = nodes[n].is_working
    /\ \A w \in Workers :
         Committing(w) => FindNode(worker[w].hash, worker[w].params) # 0
    /\ \A k \in Keys :
         enq_count[k]
           + Cardinality({c \in Callers : /\ caller[c].pc = "lookup_enq"
                                          /\ KeyOf(caller[c]) = k})
           >= hist.created[k]

\* C3: a node's is_working is 1 exactly while one parse thread is between
\* its successful compare-and-swap and its commit, and never two are; that
\* thread's commit clears is_working and adds exactly one to load_count;
\* and every creation of a node has its request enqueued by the time its
\* creator returns.
SingleFlight ==
    [][/\ SingleFlightState'
       /\ \A w \in Workers :
            (Committing(w) /\ ~Committing(w)')
               => LET n == FindNode(worker[w].hash, worker[w].params)
                  IN /\ n # 0
                     /\ nodes[n].is_working = 1
                     /\ nodes'[n].is_working = 0
                     /\ nodes'[n].load_count = nodes[n].load_count + 1]_vars

\* C3's case: two parse threads hold requests for the same node; one has
\* its task, the other is about to try the compare-and-swap.
TwoWorkersOneNode ==
    \E w, x \in Workers :
        /\ w # x
        /\ worker[w].pc = "commit"
        /\ worker[x].pc = "take"
        /\ SameKey(worker[w], worker[x])

\* The touches of the node with key k recorded through scopes still open.
PinsHeld(k) ==
    Cardinality({x \in Callers \X (1..NestDepth) \X (1..NestLookups) :
                    /\ x[2] <= Len(caller[x[1]].touched)
                    /\ x[3] <= Len(caller[x[1]].touched[x[2]])
                    /\ caller[x[1]].touched[x[2]][x[3]] = k})

\* C4: whenever no scope_close is under way, every node's scope_ref_count
\* is the number of touches of it recorded in the scopes not yet closed;
\* and the count never goes below zero.
RefCountIsPinsHeld ==
    \A n \in NodeIds :
        InTable(n) =>
            /\ nodes[n].scope_ref_count >= 0
            /\ (\A c \in Callers : caller[c].pc # "close")
                  => nodes[n].scope_ref_count = PinsHeld(KeyOf(nodes[n]))

Decodable(hash) == hs_data_from_hash(hash) # <<>>

\* C5: once a parse thread has committed (H, P), H non-zero with a blob
\* of at least one instruction, a lookup of (H, P) by hash returns a
\* non-empty Info whose first instruction has code_off 0.  The lookups
\* looked at are those that return less than 10 s after the node was first
\* created: no node is idle for 10 s by then.
LookupAfterCommitHits ==
    [][\A c \in Callers :
         (/\ LookupReturns(c)
          /\ caller'[c].rewind_idx = -1
          /\ ~u128_match(caller'[c].hash, u128_zero)
          /\ Decodable(caller'[c].hash)
          /\ hist.committed[KeyOf(caller'[c])] > 0
          /\ now_us < hist.first_created_us[KeyOf(caller'[c])] + 10000000)
            => /\ caller'[c].ret.insts # <<>>
               /\ caller'[c].ret.insts[1].code_off = 0]_vars

\* C6 as stated: when a lookup of a non-zero hash returns without having
\* found the node, a request for its (hash, params) has been enqueued.
MissHasEnqueued ==
    [][\A c \in Callers :
         (/\ LookupReturns(c)
          /\ ~u128_match(caller'[c].hash, u128_zero)
          /\ ~caller'[c].found)
            => enq_count'[KeyOf(caller'[c])] >= 1]_vars

\* C6, amended: the lookup that created the node returns in the step that
\* enqueues the request for its (hash, params).
CreatorHasEnqueued ==
    [][\A c \in Callers :
         (LookupReturns(c) /\ caller'[c].node_is_new)
            => /\ enq_count'[KeyOf(caller'[c])]
                     = enq_count[KeyOf(caller'[c])] + 1
               /\ u2p_ring' # <<>>
               /\ SameKey(Last(u2p_ring'), caller'[c])]_vars

\* C6's case: the creator of the node has returned, its request enqueued,
\* and so has a second thread that missed the same node.
CreatorAndFollowerReturned ==
    \E c, d \in Callers :
        /\ c # d
        /\ caller[c].pc = "idle" /\ caller[c].node_is_new
        /\ caller[d].pc = "idle" /\ caller[d].lookups = 1
        /\ ~caller[d].found /\ ~caller[d].node_is_new
        /\ SameKey(caller[c], caller[d])
        /\ enq_count[KeyOf(caller[c])] >= 1

\* This step belongs to a call by c of dasm_info_from_hash_params with the
\* zero hash.
ZeroHashStep(c) ==
    /\ caller'[c] # caller[c]
    /\ \/ /\ \/ caller[c].pc = "key_iter"
             \/ caller'[c].lookups = caller[c].lookups + 1
          /\ u128_match(caller'[c].hash, u128_zero)
       \/ /\ caller[c].pc \in {"lookup_w", "lookup_enq"}
          /\ u128_match(caller[c].hash, u128_zero)

\* C7: a lookup with the zero hash returns the empty Info at once and
\* changes nothing shared: no node, no pin, no touch, no request.
ZeroHashIsInert ==
    [][\A c \in Callers :
         ZeroHashStep(c)
            => /\ caller'[c].pc \in {"idle", "key_iter"}
               /\ caller'[c].ret = NilInfo
               /\ ~caller'[c].found /\ ~caller'[c].node_is_new
               /\ UNCHANGED <<slots, free_node, nodes, arenas, u2p_ring_size,
                              u2p_ring_write_pos, u2p_ring_read_pos,
                              u2p_ring_base, u2p_ring, enq_count, hist,
                              tctx>>]_vars

\* C7's case: a thread is back from a lookup of the zero hash by hash,
\* made while the table held a node.
ZeroHashLookedUp ==
    \E c \in Callers :
        /\ caller[c].pc = "idle"
        /\ caller[c].lookups >= 1
        /\ caller[c].rewind_idx = -1
        /\ u128_match(caller[c].hash, u128_zero)
        /\ caller[c].ret = NilInfo
        /\ \E n \in NodeIds : InTable(n)

\* This step is one in which the lookup made by the loop of
\* dasm_info_from_key_params returns.
KeyLookupReturns(c) == LookupReturns(c) /\ caller'[c].rewind_idx # -1

\* The rewind index the loop is at in this step, and what the lookup of
\* this step returns.
RewindIdxNow(c) == IF caller[c].pc = "idle" THEN 0 ELSE caller[c].rewind_idx
InfoNow(c) ==
    IF caller'[c].found
      THEN nodes[FindNode(caller'[c].hash, caller'[c].params)].info
      ELSE NilInfo

\* C8: info_from_key_params looks up the hash of rewind index 0, then of 1.
\* The first lookup with instructions ends the call: its Info is returned
\* and hash_out is its hash.  Index 1 is tried only after index 0 gave no
\* instructions; when neither does, the result has none and hash_out is
\* not written.
FirstNonEmptyRewindWins ==
    [][\A c \in Callers :
         /\ KeyLookupReturns(c) =>
              /\ caller'[c].hash
                    = hs_hash_from_key(caller'[c].key, RewindIdxNow(c))
              /\ InfoNow(c).insts # <<>> =>
                    /\ caller'[c].pc = "idle"
                    /\ caller'[c].ret = InfoNow(c)
                    /\ caller'[c].hash_out
                          = hs_hash_from_key(caller'[c].key, RewindIdxNow(c))
              /\ (InfoNow(c).insts = <<>> /\ RewindIdxNow(c) = 0) =>
                    /\ caller'[c].pc = "key_iter"
                    /\ caller'[c].rewind_idx = 1
                    /\ caller'[c].hash_out = "unwritten"
              /\ (InfoNow(c).insts = <<>> /\ RewindIdxNow(c) = 1) =>
                    /\ caller'[c].pc = "idle"
                    /\ caller'[c].ret.insts = <<>>
                    /\ caller'[c].hash_out = "unwritten"
         /\ (caller[c].pc = "key_iter" /\ caller'[c] # caller[c]) =>
              /\ caller[c].rewind_idx = 1
              /\ caller[c].ret.insts = <<>>]_vars

\* C8's case: the hash of rewind 0 has a node without instructions, the
\* hash of rewind 1 a node with some: the call returned those and wrote
\* the second hash.
SecondRewindWon ==
    \E c \in Callers :
        /\ caller[c].pc = "idle"
        /\ caller[c].key = <<HashB, HashA>>
        /\ caller[c].rewind_idx = 1
        /\ caller[c].ret.insts # <<>>
        /\ caller[c].hash_out = HashA
        /\ FindNode(HashB, caller[c].params) # 0

\* C9: a node leaves its slot list only in the evictor's write-locked
\* visit of it, and only if at that visit its scope_ref_count is 0, it has
\* been idle for 10 s and for 10 user clocks as of the sweep's snapshots,
\* its load_count is not 0 and its is_working is 0.
EvictedOnlyWhenIdle ==
    [][\A n \in NodeIds :
         (InTable(n) /\ ~InTable(n)')
            => /\ WalkVisits(n)
               /\ nodes[n].scope_ref_count = 0
               /\ IdleAtSnapshot(nodes[n])
               /\ nodes[n].load_count # 0
               /\ nodes[n].is_working = 0]_vars

\* C9's case: a node that had been loaded was evicted and is on its
\* stripe's free list.
LoadedNodeEvicted ==
    \E st \in UsedStripes :
        /\ free_node[st] # <<>>
        /\ nodes[Head(free_node[st])].load_count # 0
        /\ ~InTable(Head(free_node[st]))

\* Idle for more than 10 s and more than 10 user clocks, as the sweep's
\* snapshots see it.
LongIdleAtSnapshot(node) ==
    /\ node.last_time_touched_us + 10000000 < ev.check_time_us
    /\ node.last_user_clock_idx_touched + 10 < ev.check_time_user_clocks

\* C10 as stated, per sweep: a sweep that comes to the slot of a node with
\* scope_ref_count 0 and load_count above 0, idle for more than 10 s and
\* more than 10 user clocks, walks the slot, unlinks the node and releases
\* its info_arena.
SweepEvictsUnpinnedIdle ==
    [][/\ (/\ ev.pc = "scan" /\ ev' # ev
           /\ \E i \in 1..Len(slots[ev.slot_idx]) :
                LET node == nodes[slots[ev.slot_idx][i]]
                IN /\ node.scope_ref_count = 0
                   /\ node.load_count > 0
                   /\ LongIdleAtSnapshot(node))
          => ev'.pc = "wlock"
       /\ \A n \in NodeIds :
            (/\ WalkVisits(n)
             /\ nodes[n].scope_ref_count = 0
             /\ nodes[n].load_count > 0
             /\ LongIdleAtSnapshot(nodes[n]))
               => /\ ~InTable(n)'
                  /\ nodes[n].info_arena \notin arenas']_vars

\* C10, amended: a sweep that comes to the slot of a node with
\* scope_ref_count 0, load_count above 0 and is_working 0, idle for at
\* least 10 s and 10 user clocks as of the sweep's snapshots, walks the
\* slot, unlinks the node and releases its info_arena; and the evictor
\* sleeps 100 ms between two sweeps.
SweepEvictsIdle ==
    [][/\ (/\ ev.pc = "scan" /\ ev' # ev
           /\ \E i \in 1..Len(slots[ev.slot_idx]) :
                LET node == nodes[slots[ev.slot_idx][i]]
                IN /\ node.scope_ref_count = 0
                   /\ node.load_count > 0
                   /\ node.is_working = 0
                   /\ IdleAtSnapshot(node))
          => ev'.pc = "wlock"
       /\ \A n \in NodeIds :
            (/\ WalkVisits(n)
             /\ nodes[n].scope_ref_count = 0
             /\ nodes[n].load_count > 0
             /\ nodes[n].is_working = 0
             /\ IdleAtSnapshot(nodes[n]))
               => /\ ~InTable(n)'
                  /\ nodes[n].info_arena # 0
                  /\ nodes[n].info_arena \notin arenas'
       /\ (ev.pc # "sleep" /\ ev'.pc = "sleep")
             => ev'.wake_us = now_us + 100000
       /\ (ev.pc = "sleep" /\ ev'.pc # "sleep")
             => /\ now_us >= ev.wake_us
                /\ ev'.check_time_us = now_us
                /\ ev'.check_time_user_clocks = user_clock_idx]_vars

\* C10's case: a sweep is over, the node it found idle is off the table
\* and its info_arena released.
SweepEvicted ==
    /\ ev.pc = "sleep"
    /\ \E st \in UsedStripes :
         /\ free_node[st] # <<>>
         /\ nodes[Head(free_node[st])].info_arena # 0
         /\ nodes[Head(free_node[st])].info_arena \notin arenas
         /\ \A s \in UsedSlots : slots[s] = <<>>

\* Stale, and last requested at least 1 s before the sweep's clock snapshot.
StaleForASecond(node) ==
    /\ node.change_gen # 0
    /\ node.change_gen # ev.change_gen
    /\ node.last_time_requested_us + 1000000 <= ev.check_time_us

\* Stale, and last requested at least 1 s and 10 user clocks before the
\* sweep's snapshots.
StaleAtSnapshot(node) ==
    /\ StaleForASecond(node)
    /\ node.last_user_clock_idx_requested + 10 <= ev.check_time_user_clocks

\* This step is a visit of the evictor's walk that enqueues a request.
WalkRequeues(n) == WalkVisits(n) /\ enq_count' # enq_count

\* C11 as stated, per sweep: a sweep that comes to a node committed with a
\* non-zero change_gen other than the sweep's snapshot of fs_change_gen,
\* last requested 1 s or more before, re-enqueues a request for it, and the
\* node stays in the table for the worker to reload it.
StaleNodeRequeuedInTime ==
    [][/\ (/\ ev.pc = "scan" /\ ev' # ev
           /\ \E i \in 1..Len(slots[ev.slot_idx]) :
                StaleForASecond(nodes[slots[ev.slot_idx][i]]))
          => ev'.pc = "wlock"
       /\ \A n \in NodeIds :
            (WalkVisits(n) /\ StaleForASecond(nodes[n]))
               => /\ enq_count'[KeyOf(nodes[n])]
                        = enq_count[KeyOf(nodes[n])] + 1
                  /\ InTable(n)']_vars

\* C11, amended: a sweep that comes to a node whose change_gen is neither
\* 0 nor the sweep's snapshot of fs_change_gen, last requested at least 1 s
\* and at least 10 user clocks before the sweep's snapshots, walks the slot
\* and enqueues a request for the node's (hash, params), stamping the node
\* with the time of the enqueue and the sweep's user clock; the walk
\* enqueues for no other node; and a commit that finds its node adds one to
\* load_count, stores the worker's snapshot of fs_change_gen (0 without
\* source annotation) and leaves the node in the table.
StaleNodeRequeuedBySweep ==
    [][/\ (/\ ev.pc = "scan" /\ ev' # ev
           /\ \E i \in 1..Len(slots[ev.slot_idx]) :
                StaleAtSnapshot(nodes[slots[ev.slot_idx][i]]))
          => ev'.pc = "wlock"
       /\ \A n \in NodeIds :
            /\ (/\ WalkVisits(n) /\ StaleAtSnapshot(nodes[n])
                /\ RingHasRoom(nodes[n].params))
                  => /\ enq_count'[KeyOf(nodes[n])]
                           = enq_count[KeyOf(nodes[n])] + 1
                     /\ SameKey(Last(u2p_ring'), nodes[n])
                     /\ nodes'[n].last_time_requested_us = now_us
                     /\ nodes'[n].last_user_clock_idx_requested
                           = ev.check_time_user_clocks
            /\ WalkRequeues(n) => StaleAtSnapshot(nodes[n])
       /\ \A w \in Workers, n \in NodeIds :
            (/\ Committing(w) /\ ~Committing(w)'
             /\ n = FindNode(worker[w].hash, worker[w].params))
               => /\ InTable(n)'
                  /\ nodes'[n].load_count = nodes[n].load_count + 1
                  /\ nodes'[n].change_gen
                        = IF Annotated(worker[w].params, worker[w].rdi)
                            THEN worker[w].change_gen ELSE 0]_vars

\* C11's case: a node committed under one generation was re-queued after
\* the files changed and reloaded under the new generation, in place.
RequeuedNodeReloaded ==
    \E n \in NodeIds :
        /\ InTable(n)
        /\ hist.created[KeyOf(nodes[n])] = 1
        /\ enq_count[KeyOf(nodes[n])] = 2
        /\ nodes[n].load_count = 2
        /\ nodes[n].change_gen = 2
        /\ nodes[n].last_time_requested_us > 0

\* C17: the visit of the walk that unlinks a node enqueues no request and
\* writes none of the node's fields, and the walk goes on to the node that
\* followed it in the list.
EvictedNodeLeftAlone ==
    [][\A n \in NodeIds :
         (WalkVisits(n) /\ InTable(n) /\ ~InTable(n)')
            => /\ enq_count' = enq_count
               /\ u2p_ring' = u2p_ring
               /\ nodes'[n] = nodes[n]
               /\ ev'.n = IF ev'.pc = "walk"
                            THEN Successor(slots[ev.slot_idx], n) ELSE 0]_vars

\* The touches reached from touch t are, newest first, those of keys[1..i].
RECURSIVE ChainRecords(_, _, _, _)
ChainRecords(mem, t, keys, i) ==
    IF i = 0 THEN t = 0
    ELSE /\ IsTouch(mem, t)
         /\ u128_match(mem[t].hash, keys[i][1])
         /\ dasm_params_match(mem[t].params, keys[i][2])
         /\ ChainRecords(mem, mem[t].next, keys, i - 1)

\* C19: whenever a thread is between calls, the touch list of each of its
\* open scopes holds exactly the pins recorded through that scope, whatever
\* scopes opened inside it have been closed since.
OpenScopesKeepTheirPins ==
    \A c \in Callers :
        caller[c].pc = "idle" =>
            \A i \in 1..Len(caller[c].scopes) :
                LET scope == caller[c].scopes[i]
                IN /\ scope \in DOMAIN tctx[c].mem
                   /\ tctx[c].mem[scope].kind = "scope"
                   /\ ChainRecords(tctx[c].mem, tctx[c].mem[scope].top_touch,
                                   caller[c].touched[i],
                                   Len(caller[c].touched[i]))

\* This step writes one of the two request stamps of node n.
StampsWritten(n) ==
    \/ nodes'[n].last_time_requested_us # nodes[n].last_time_requested_us
    \/ nodes'[n].last_user_clock_idx_requested
          # nodes[n].last_user_clock_idx_requested

\* This step is a re-queue of node n, which has been re-queued before.
RequeuedAgain(n) ==
    /\ WalkRequeues(n)
    /\ hist.requeued_us[KeyOf(nodes[n])] >= 0

\* C20 as stated: the stamps of a node in the table are written only by a
\* visit of the walk that enqueued a request for it, and when a node is
\* re-queued again at least 1 s has passed and the user clock has advanced
\* by at least 10 since its previous re-queue.
RequeuesFarApart ==
    [][\A n \in NodeIds :
         /\ (InTable(n) /\ StampsWritten(n)) => WalkRequeues(n)
         /\ RequeuedAgain(n)
              => /\ now_us >= hist.requeued_us[KeyOf(nodes[n])] + 1000000
                 /\ user_clock_idx
                       >= hist.requeued_clock[KeyOf(nodes[n])] + 10]_vars

\* C20, amended: the stamps of a node in the table are written only by a
\* visit of the walk that enqueued a request for it; last_time_requested_us
\* is the time of that enqueue and last_user_clock_idx_requested the user
\* clock as the sweep snapshot it; and when a node is re-queued again, at
\* least 1 s has passed since its previous re-queue and the user-clock
\* snapshot of the sweep is at least 10 above that of the sweep that
\* re-queued it before.
RequeuesFarApartBySnapshot ==
    [][\A n \in NodeIds :
         /\ (InTable(n) /\ StampsWritten(n)) => WalkRequeues(n)
         /\ WalkRequeues(n)
              => /\ nodes'[n].last_time_requested_us = now_us
                 /\ nodes'[n].last_user_clock_idx_requested
                       = ev.check_time_user_clocks
         /\ RequeuedAgain(n)
              => /\ nodes[n].last_time_requested_us
                       = hist.requeued_us[KeyOf(nodes[n])]
                 /\ now_us >= hist.requeued_us[KeyOf(nodes[n])] + 1000000
                 /\ ev.check_time_user_clocks
                       >= nodes[n].last_user_clock_idx_requested + 10]_vars

\* C20's case: a node has been re-queued twice, its change_gen stale all
\* the while.
RequeuedTwice ==
    \E n \in NodeIds :
        /\ InTable(n)
        /\ hist.created[KeyOf(nodes[n])] = 1
        /\ enq_count[KeyOf(nodes[n])] = 3
        /\ nodes[n].change_gen # 0
        /\ nodes[n].change_gen # fs_gen

\* The debug info a committed Info was produced with: the rdi pointer is
\* one of the words its text_key is hashed from.
RdiOf(info) == info.text_key[7]

\* C12: a node that has been committed has a non-zero change_gen exactly
\* when its Info was produced with a source-annotation style flag set and
\* debug info other than the nil one.
ChangeGenMarksAnnotated ==
    \A n \in NodeIds :
        (InTable(n) /\ nodes[n].load_count # 0)
           => (nodes[n].change_gen # 0
                 <=> Annotated(nodes[n].params, RdiOf(nodes[n].info)))

\* The Infos a commit for (hash, params) can write.
CommitInfos(hash, params) ==
    {MakeInfo(hash, params, rdi) : rdi \in RdiChoices(params)}

\* This step writes a field that is written under the write lock only:
\* a slot list, or a node's info, info_arena or change_gen.
WritesGuardedField ==
    \/ slots' # slots
    \/ \E n \in NodeIds :
        \/ nodes'[n].info # nodes[n].info
        \/ nodes'[n].info_arena # nodes[n].info_arena
        \/ nodes'[n].change_gen # nodes[n].change_gen

\* This step is of a thread inside a write-locked section.
WriteLockedStep ==
    \/ \E c \in Callers : caller[c].pc = "lookup_w" /\ caller'[c] # caller[c]
    \/ \E w \in Workers : Committing(w) /\ worker'[w] # worker[w]
    \/ ev.pc \in {"wlock", "walk", "enqueue"} /\ ev' # ev

\* C18: every Info a lookup of (hash, params) returns is the empty one or
\* the whole Info, text_key and insts, that a commit for that (hash,
\* params) wrote, and some commit for it has ended; the slot lists and the
\* fields info, info_arena and change_gen of the nodes are written only in
\* steps of a thread inside a write-locked section; and the evictor and a
\* committing parse thread never hold the write lock of a stripe together.
CommitsAreAtomic ==
    [][/\ \A c \in Callers :
            (LookupReturns(c) /\ caller'[c].ret # NilInfo)
               => /\ caller'[c].ret
                        \in CommitInfos(caller'[c].hash, caller'[c].params)
                  /\ hist.committed[KeyOf(caller'[c])] > 0
       /\ WritesGuardedField => WriteLockedStep
       /\ \A st \in UsedStripes :
            ~(EvictorHoldsW(st) /\ WorkerHoldsW(st))]_vars

\* C18's case: a parse thread is part way through a second commit for a
\* node, and a thread holds, whole, the Info the first commit wrote.
LookupMetCommit ==
    \E c \in Callers, w \in Workers :
        /\ caller[c].pc = "idle"
        /\ caller[c].found
        /\ caller[c].ret.insts # <<>>
        /\ worker[w].pc = "commit_w"
        /\ SameKey(worker[w], caller[c])

\* --------------------------------------------------------------- the ring
\* A parse thread's step out of dasm_u2p_dequeue_req with a request.
Dequeues(w) == worker[w].pc = "dequeue" /\ worker'[w].pc = "take"

\* C13: the request a dequeue returns is, field for field, the oldest of
\* the requests enqueued with success and not yet dequeued, whatever its
\* place in the ring buffer and however many others are outstanding.
RingRoundTrip ==
    [][\A w \in Workers :
         Dequeues(w)
            => /\ u2p_ring # <<>>
               /\ worker'[w].hash = Head(u2p_ring).hash
               /\ worker'[w].params = Head(u2p_ring).params
               /\ u2p_ring' = Tail(u2p_ring)]_vars

\* C13's case: a parse thread holds a request with a path whose record
\* lay across the end of the ring buffer, and another request is
\* outstanding behind it.
WrappedRecordRead ==
    \E w \in Workers :
        LET bytes == RecordBytes(worker[w].params)
            start == u2p_ring_read_pos - AlignUp8(bytes)
        IN /\ worker[w].pc = "take"
           /\ worker[w].params.dbgi_key.path # <<>>
           /\ start >= 0
           /\ (start % u2p_ring_size) + bytes > u2p_ring_size
           /\ u2p_ring # <<>>

\* The bytes the first k outstanding records take of the ring, padding
\* included.
RECURSIVE PaddedBytes(_)
PaddedBytes(k) ==
    IF k = 0 THEN 0
    ELSE PaddedBytes(k - 1) + AlignUp8(RecordBytes(u2p_ring[k].params))

Occupancy == u2p_ring_write_pos - u2p_ring_read_pos

\* The offsets of the buffer the k-th outstanding record's bytes lie at.
Extent(k) ==
    {(u2p_ring_read_pos + PaddedBytes(k - 1) + i) % u2p_ring_size :
        i \in 0..(RecordBytes(u2p_ring[k].params) - 1)}

\* C14: the occupancy write_pos - read_pos is never below 0 and never
\* above the ring's size; both positions are multiples of 8 and the
\* occupancy is the padded sizes of the outstanding records together; no
\* two outstanding records share a byte of the buffer and each one's bytes
\* are in it as they were written; and whenever the occupancy reaches the
\* size a dequeue asks for, a whole record is there to be read.
RingWithinCapacity ==
    /\ 0 <= Occupancy /\ Occupancy <= u2p_ring_size
    /\ u2p_ring_write_pos % 8 = 0 /\ u2p_ring_read_pos % 8 = 0
    /\ Occupancy = PaddedBytes(Len(u2p_ring))
    /\ \A j, k \in 1..Len(u2p_ring) : j # k => Extent(j) \cap Extent(k) = {}
    /\ \A k \in 1..Len(u2p_ring) :
          /\ Extent(k) \subseteq DOMAIN u2p_ring_base
          /\ RingRead(u2p_ring_base, u2p_ring_size,
                      u2p_ring_read_pos + PaddedBytes(k - 1),
                      RecordBytes(u2p_ring[k].params))
               = RecordImage(u2p_ring[k].hash, u2p_ring[k].params)
    /\ Occupancy >= ring_fixed_bytes
          => /\ u2p_ring # <<>>
             /\ Occupancy >= RecordBytes(u2p_ring[1].params)

\* C14's case: the ring is full to its last byte, the positions are past
\* the end of the buffer, and the newest record was let in on a size that
\* is not a multiple of 8.
RingFullByPadding ==
    /\ Occupancy = u2p_ring_size
    /\ u2p_ring_read_pos > 0
    /\ u2p_ring_write_pos > u2p_ring_size
    /\ RecordBytes(u2p_ring[Len(u2p_ring)].params) % 8 # 0

\* A step of thread c inside a direct call of dasm_u2p_enqueue_req.
EnqueueSteps(c) == caller[c].pc = "enq" /\ caller'[c] # caller[c]

RingUntouched ==
    UNCHANGED <<u2p_ring_size, u2p_ring_write_pos, u2p_ring_read_pos,
                u2p_ring_base, u2p_ring, enq_count>>

\* The step wrote the whole record of (hash, params) at write_pos and
\* nothing else.
RecordWritten(hash, params) ==
    /\ u2p_ring_write_pos' =
          u2p_ring_write_pos + AlignUp8(RecordBytes(params))
    /\ u2p_ring_read_pos' = u2p_ring_read_pos
    /\ u2p_ring' = Append(u2p_ring, [hash |-> hash, params |-> params])
    /\ RingRead(u2p_ring_base', u2p_ring_size, u2p_ring_write_pos,
                RecordBytes(params)) = RecordImage(hash, params)
    /\ \A o \in DOMAIN u2p_ring_base : u2p_ring_base'[o] = u2p_ring_base[o]

\* C15: a call of the enqueue stays in the call, asleep on the condition
\* variable, only while the record does not fit and the clock is before
\* the deadline; it returns 0 only when the record does not fit and the
\* clock has reached the deadline, and then the positions and the bytes of
\* the ring are as they were and no sleeper is woken; it returns 1 only
\* when the record fitted, and then the whole record has been written.
EnqueueContract ==
    [][\A c \in Callers :
         EnqueueSteps(c)
            => LET cr   == caller[c]
                   room == u2p_ring_size - Occupancy >= RecordBytes(cr.params)
               IN CASE caller'[c].pc = "enq" ->
                         /\ ~room /\ now_us < cr.endt_us
                         /\ RingUntouched
                         /\ u2p_ring_cv' = u2p_ring_cv \cup {c}
                    [] caller'[c].pc = "idle" /\ caller'[c].good = 0 ->
                         /\ ~room /\ now_us >= cr.endt_us
                         /\ RingUntouched
                         /\ u2p_ring_cv' = u2p_ring_cv \ {c}
                    [] caller'[c].pc = "idle" /\ caller'[c].good = 1 ->
                         /\ room
                         /\ RecordWritten(cr.hash, cr.params)
                    [] OTHER -> FALSE]_vars

\* C15's case: a call that found no room slept on the condition variable
\* until its deadline, found no room again and returned 0, while the ring
\* is still full.
EnqueueTimedOut ==
    \E c \in Callers :
        /\ caller[c].pc = "idle"
        /\ caller[c].calls > 0
        /\ caller[c].good = 0
        /\ caller[c].waited
        /\ now_us > 0
        /\ Occupancy = u2p_ring_size

\* C16: every step that changes the ring's occupancy, a successful
\* enqueue or a dequeue, wakes every thread asleep on the ring's condition
\* variable.
OccupancyChangeWakesSleepers ==
    [][(u2p_ring_write_pos' # u2p_ring_write_pos
          \/ u2p_ring_read_pos' # u2p_ring_read_pos)
         => u2p_ring_cv' = {}]_vars

\* ------------------------------------------------------------- the decode
\* The lines of a text: the runs of bytes between line feeds; the empty
\* text has none.
Lines(text) ==
    LET lf      == {i \in 1..Len(text) : text[i] = 10}
        from(k) == IF k = 1 THEN 1
                   ELSE 1 + CHOOSE p \in lf :
                              Cardinality({q \in lf : q <= p}) = k - 1
        to(k)   == IF k = Cardinality(lf) + 1 THEN Len(text)
                   ELSE (CHOOSE p \in lf :
                            Cardinality({q \in lf : q <= p}) = k) - 1
    IN IF text = <<>> THEN <<>>
       ELSE [k \in 1..(Cardinality(lf) + 1) |-> SubSeq(text, from(k), to(k))]

\* A line of source annotation begins with "> ".
IsSourceLine(line) == Len(line) >= 2 /\ line[1] = 62 /\ line[2] = 32

RECURSIVE LengthsBefore(_, _)
LengthsBefore(lines, i) ==
    IF i = 1 THEN 0 ELSE LengthsBefore(lines, i - 1) + Len(lines[i - 1]) + 1

\* The offsets of the instructions of a blob: the sums of the sizes the
\* decoder returns, up to the first size 0.
RECURSIVE CodeOffs(_, _)
CodeOffs(sizes, off) ==
    IF sizes = <<>> \/ Head(sizes) = 0 THEN <<>>
    ELSE <<off>> \o CodeOffs(Tail(sizes), off + Head(sizes))

WorkerDone(w) == worker[w].pc \in {"commit", "commit_w"}

\* C21: the insts array a parse thread is about to commit has one record
\* for each line of the joined text it has submitted to the hash store;
\* the record of a line of source
\* annotation is all zero; the text_range of the record of an instruction
\* starts at the lengths plus one of all lines before it and is as long as
\* its line, so that it cuts that line out of the text; the ranges of two
\* instructions lie apart, the later one higher; and the code_off of the
\* instructions are 0 and then the sums of the decoded sizes.
InstsMatchLines ==
    \A w \in Workers :
        WorkerDone(w) =>
           LET insts == worker[w].info.insts
               text  == JoinedText(worker[w].hash, worker[w].params,
                                   worker[w].rdi)
               lines == Lines(text)
               real  == {i \in 1..Len(lines) : ~IsSourceLine(lines[i])}
               offs  == CodeOffs(hs_data_from_hash(worker[w].hash), 0)
           IN /\ Len(insts) = Len(lines)
              /\ \A i \in 1..Len(lines) :
                    IF i \in real
                      THEN LET range == insts[i].text_range
                           IN /\ range[1] = LengthsBefore(lines, i)
                              /\ range[2] = range[1] + Len(lines[i])
                              /\ SubSeq(text, range[1] + 1, range[2])
                                    = lines[i]
                      ELSE insts[i] = InstZero
              /\ \A i, j \in real :
                    i < j => insts[i].text_range[2] < insts[j].text_range[1]
              /\ Cardinality(real) = Len(offs)
              /\ \A i \in real :
                    insts[i].code_off
                       = offs[Cardinality({j \in real : j <= i})]

\* C21's case: a parse thread has decoded three instructions with their
\* addresses and code bytes, and lines of source stand before the first
\* and between the later ones.
DecodedWithSourceBetween ==
    \E w \in Workers :
        /\ WorkerDone(w)
        /\ Len(worker[w].info.insts) >= 5
        /\ worker[w].info.insts[1] = InstZero
        /\ \E i \in 3..Len(worker[w].info.insts) :
              /\ worker[w].info.insts[i] = InstZero
              /\ worker[w].info.insts[i - 1] # InstZero
        /\ worker[w].info.insts[Len(worker[w].info.insts)].code_off = 4

\* ------------------------------------------------------- the claimed node
\* C22: while a parse thread is between its successful compare-and-swap
\* on is_working and the end of its commit, the node of its (hash, params)
\* is in its slot list with is_working 1; no step unlinks it, gives it
\* another key or creates a node for the key; and the step that ends the
\* commit writes the thread's Info into that node.
ClaimedNodeStays ==
    [][\A w \in Workers :
         Committing(w)
            => /\ FindNode(worker[w].hash, worker[w].params) # 0
               /\ \A n \in NodeIds :
                    n = FindNode(worker[w].hash, worker[w].params)
                       => /\ nodes[n].is_working = 1
                          /\ InTable(n)'
                          /\ SameKey(nodes'[n], worker[w])
                          /\ hist'.created[KeyOf(worker[w])]
                                = hist.created[KeyOf(worker[w])]
                          /\ ~Committing(w)'
                                => /\ nodes'[n].info = worker[w].info
                                   /\ nodes'[n].info_arena
                                         = worker[w].info_arena
                                   /\ hist'.committed[KeyOf(worker[w])]
                                         = hist.committed[KeyOf(worker[w])]
                                              + 1]_vars

\* C22's case: the evictor holds the write lock of the slot and is at a
\* node that a parse thread has claimed for a second load, and that is
\* unpinned, loaded and idle beyond both thresholds.
WalkAtClaimedIdleNode ==
    /\ ev.pc = "wlock"
    /\ slots[ev.slot_idx] # <<>>
    /\ LET node == nodes[Head(slots[ev.slot_idx])]
       IN /\ node.scope_ref_count = 0
          /\ node.load_count # 0
          /\ IdleAtSnapshot(node)
          /\ node.is_working = 1
          /\ \E w \in Workers : Committing(w) /\ SameKey(worker[w], node)

\* ------------------------------------------------------ the young node
Max(a, b) == IF a > b THEN a ELSE b

\* This step is the evictor's unlinking of node n.
Evicts(n) == WalkVisits(n) /\ InTable(n) /\ ~InTable(n)'

\* C23: when the evictor unlinks a node that a lookup miss has made, and
\* made only once, at least 10 s have gone by since that miss and since
\* the node's last touch, and at least 10 user clocks since its last
\* touch.
NoEvictionOfYoungNode ==
    [][\A n \in NodeIds :
         (Evicts(n) /\ hist.created[KeyOf(nodes[n])] = 1)
            => /\ now_us >=
                    Max(hist.first_created_us[KeyOf(nodes[n])],
                        nodes[n].last_time_touched_us) + 10000000
               /\ user_clock_idx >=
                    nodes[n].last_user_clock_idx_touched + 10]_vars

\* --------------------------------------------------------- the info arenas
\* The linked nodes whose info_arena is arena a.
NodesOfArena(a) == {n \in NodeIds : InTable(n) /\ nodes[n].info_arena = a}

\* C24: every info arena that has been allocated and not released is the
\* info_arena of exactly one node in the table, or of no node and in the
\* hands of a parse thread that has yet to commit it.
NoOrphanedInfoArena ==
    \A a \in arenas :
        \/ Cardinality(NodesOfArena(a)) = 1
        \/ /\ NodesOfArena(a) = {}
           /\ \E w \in Workers : Committing(w) /\ worker[w].info_arena = a

\* ------------------------------------------------------------ the jam
\* The evictor is asleep inside the enqueue of a stale node's request, the
\* stripe write-locked, and the ring has no room for the request.
EvictorWaitsForRoom ==
    /\ ev.pc = "enqueue"
    /\ ~RingHasRoom(nodes[ev.req].params)

\* The parse thread has a request in hand and needs the lock of the
\* stripe the evictor holds.
WaitsForEvictorsStripe(w) ==
    /\ worker[w].pc \in {"take", "commit"}
    /\ EvictorHoldsW(StripeOf(SlotOf(worker[w].hash)))

\* C25: no state is reached in which the evictor waits for room in the
\* ring inside its write-locked walk while the parse thread, the only one
\* that takes requests off the ring, waits for the lock of that stripe.
NoJam == ~(EvictorWaitsForRoom /\ WaitsForEvictorsStripe(1))
====
